---- MODULE Spec2Model ----
(***************************************************************************)
(* A model of the orchestration core of AI-Orchestrator:                   *)
(*   - StateMachine, OrchestratorIntelligence, PolicyEngine,               *)
(*     CreditAssignment, AdaptiveOrchestrator, StoppingConditionManager    *)
(*                                   (src/core/orchestrator.py)            *)
(*   - ExecutionFlow                 (src/core/execution_flow.py)          *)
(*   - HumanApprovalManager          (src/core/human_approval.py)          *)
(*   - PermissionManager, ToolRegistry, FileIOTool  (src/core/tools.py)    *)
(* Each component has its own specification; the variables of the          *)
(* components a specification does not exercise keep their initial values. *)
(***************************************************************************)
EXTENDS Integers, Sequences, FiniteSets, TLC

VARIABLES
    \* StateMachine
    current_state,      \* StateMachine.current_state
    state_history,      \* StateMachine.state_history (timestamps left out)
    sm_call,            \* the last transition() call: its target and the state it was made in
    sm_ret              \* the value that call returned

VARIABLES
    \* OrchestratorIntelligence (the facade); it owns a StateMachine
    policy,             \* OrchestratorPolicy: the fields the modelled code reads
    active_assignments, \* task id -> TaskAssignment (agent_id, retry_count, max_retries)
    mission_tasks,      \* mission id -> list of task ids
    orch_call,          \* the last facade call: operation, task, reported status
    orch_ret,           \* what that call returned
    fail_reports,       \* task id -> failure reports answered since the task was assigned
    retry_answers,      \* task id -> how many of them were answered "retry"
    fallback_answers    \* task id -> how many of them were answered "fallback"

VARIABLES
    \* ExecutionFlow.execute_mission and what it drives
    flow_pc,            \* where execute_mission stands
    flow_tasks,         \* the task list the decomposer returns (task_id, dependencies)
    flow_idx,           \* position of _phase_execution's loop in that list
    max_iterations,     \* the max_iterations argument
    iteration,          \* execute_mission's iteration counter
    has_best,           \* best_result is not None
    best_score,         \* best_score, as a fraction num/den
    mission_status,     \* CoreMission: the mission's status
    task_status,        \* ShortTermMemory: the status of every task of the project state
    scores,             \* ExecutionContext.scores: task id -> overall score (percent)
    task_retries,       \* ExecutionContext.metadata["<task>_retries"]
    failure_count,      \* ControllerAgent.failure_count
    agent_runs,         \* task id -> how often an agent's execute_task ran for it
    dispatch_log,       \* per agent run: the task, the agent, its status, whether the dependencies were completed
    project_outcome,    \* LongTermMemory: the outcome recorded for the mission
    flow_result,        \* the status of the outcome execute_mission returned
    mission_goal,       \* CoreMission.missions[mission_id].goal
    short_term_project, \* ShortTermMemory.projects.get(mission_id): <<>> or <<the project's goal>>
    plan_approval       \* the approval status local to _phase_planning

VARIABLES
    \* PolicyEngine._prioritize_by_dependencies
    pri_pc,             \* where prioritize_tasks stands
    pri_tasks,          \* the tasks argument
    pri_dependencies,   \* the dependencies argument
    remaining,          \* the ids not yet placed
    ready_tasks         \* the result under construction

VARIABLES
    \* a PolicyEngine as its owner calls it
    candidate_agents,   \* the candidate list the owner passes to select_agent
    pe_call,            \* the last call: operation and arguments
    pe_ret,             \* what that call returned
    round_robin_index,  \* PolicyEngine._round_robin_index (0 while unset)
    select_calls        \* how many select_agent calls were made

VARIABLES
    \* CreditAssignment and AdaptiveOrchestrator
    credits,            \* CreditAssignment.credits, the ledger
    agent_credits,      \* CreditAssignment.agent_credits: agent id -> its records
    adaptation_weights, \* AdaptiveOrchestrator.adaptation_weights (the keys set so far)
    ledger_call,        \* the last call of the ledger or the adaptive orchestrator
    ledger_ret,         \* what that call returned
    ledger_calls        \* how many such calls were made

VARIABLES
    \* StoppingConditionManager
    stopping_manager,   \* the manager: conditions, metrics, iteration_count, start_time
    fresh_manager,      \* a manager built anew at the last reset, given the same calls
    stop_call,          \* the last call: operation and current_metrics
    stop_ret,           \* what it returned, and the callbacks it invoked
    fresh_ret,          \* the same for the manager built anew
    clock_now,          \* datetime.now(), in seconds
    check_calls,        \* how many check_conditions calls were made
    reset_done          \* reset was called

VARIABLES
    \* HumanApprovalManager
    approval_config,            \* auto_approve_enabled, auto_approve_timeout
    requests,                   \* HumanApprovalManager.requests, by request number
    approval_callbacks,         \* milestone type -> what its callback answers
    auto_approved_milestones,   \* HumanApprovalManager.auto_approved_milestones
    approval_call,              \* the last call: operation and request number
    approval_ret,               \* what it returned
    approval_now                \* datetime.now(), in seconds

VARIABLES
    \* PermissionManager and ToolRegistry
    permissions,        \* PermissionManager.permissions: agent id -> ToolPermissionSet
    audit_log,          \* tool id -> length of the tool's audit_log
    last_grant,         \* (agent, tool) -> the most recent grant, as the caller made it
    tool_call,          \* the last call: operation and arguments
    tool_ret,           \* what it returned, and whether the tool's execute ran
    tool_now            \* datetime.now(), in seconds

VARIABLES
    \* FileIOTool, on one path
    file_content,       \* the file at the path (None: no such file)
    backups,            \* FileIOTool.backups[path] (None: no entry)
    file_executions,    \* the ToolExecution records handed to the caller
    file_call,          \* the last call
    file_ret            \* what it returned

VARIABLES
    \* concurrent callers of OrchestratorIntelligence.assign_credit
    writer_pc,          \* where each caller stands
    writer_credit,      \* the outcome each caller records: agent, success, quality
    writer_iter,        \* each caller's iteration over agent_credits.keys()
    key_order           \* the keys of agent_credits in insertion order

VARIABLES
    \* SoftwareFactory.execute_with_automation
    automation_level,           \* SoftwareFactory.automation_level
    improvement_max_iterations, \* ImprovementAutomation.max_iterations
    auto_pc,                    \* where the call stands
    auto_iteration,             \* the local iteration
    auto_best_result,           \* the local best_result: <<>> while None
    auto_best_score,            \* the local best_score
    auto_review,                \* the local review: <<>> while unbound
    improvement_history,        \* ImprovementAutomation.improvement_history
    mission_runs,               \* how many times execute_mission was called
    auto_ret                    \* what the call returned, or the exception it raised

VARIABLES
    \* ShortTermMemory and LongTermMemory
    projects,          \* ShortTermMemory.projects: the tasks dict of each project
    active_tasks,      \* ShortTermMemory.active_tasks
    project_outcomes,  \* LongTermMemory.project_outcomes
    mem_call,          \* the last call
    mem_ret            \* what it returned, or the exception it raised

smVars == <<current_state, state_history, sm_call, sm_ret>>
orchVars == <<policy, active_assignments, mission_tasks, orch_call, orch_ret,
              fail_reports, retry_answers, fallback_answers>>
flowVars == <<flow_pc, flow_tasks, flow_idx, max_iterations, iteration, has_best,
              best_score, mission_status, task_status, scores, task_retries,
              failure_count, agent_runs, dispatch_log, project_outcome,
              flow_result, plan_approval, mission_goal, short_term_project>>
priVars == <<pri_pc, pri_tasks, pri_dependencies, remaining, ready_tasks>>
peVars == <<candidate_agents, pe_call, pe_ret, round_robin_index, select_calls>>
ledgerVars == <<credits, agent_credits, adaptation_weights, ledger_call, ledger_ret,
                ledger_calls>>
stopVars == <<stopping_manager, fresh_manager, stop_call, stop_ret, fresh_ret, clock_now,
              check_calls, reset_done>>
approvalVars == <<approval_config, requests, approval_callbacks, auto_approved_milestones,
                  approval_call, approval_ret, approval_now>>
toolVars == <<permissions, audit_log, last_grant, tool_call, tool_ret, tool_now>>
fileVars == <<file_content, backups, file_executions, file_call, file_ret>>
writerVars == <<writer_pc, writer_credit, writer_iter, key_order>>
autoVars == <<automation_level, improvement_max_iterations, auto_pc, auto_iteration,
              auto_best_result, auto_best_score, auto_review, improvement_history,
              mission_runs, auto_ret>>
memVars == <<projects, active_tasks, project_outcomes, mem_call, mem_ret>>
vars == <<smVars, orchVars, flowVars, priVars, peVars, ledgerVars, stopVars, approvalVars,
          toolVars, fileVars, writerVars, autoVars, memVars>>

----------------------------------------------------------------------------
(* Bounds of the model *)

\* longest transition history explored by SpecSM
MaxHistory == 5
\* largest policy.max_retries_per_task explored
MaxRetries == 2
\* longest transition history explored by SpecOrch
MaxSteps == 9
\* longest task list a decomposer returns in SpecFlow
MaxTasks == 3
\* longest task list handed to prioritize_tasks in SpecPri
MaxPriTasks == 3
\* most select_agent calls made in SpecPolicy
MaxCalls == 4
\* largest retry count passed to get_retry_delay in SpecPolicy
MaxRetryCount == 7
\* most calls of the ledger and the adaptive orchestrator in SpecLedger
MaxLedgerCalls == 3
\* most check_conditions calls in SpecStop
MaxChecks == 3
\* most approval requests made in SpecApproval
MaxRequests == 2
\* the latest expiry a grant names in SpecTools
MaxToolTime == 2
\* most audit log entries written in SpecTools
MaxAudit == 1
\* most further outcomes recorded for agent_2 in SpecScenario
MaxFeed == 15
\* most file tool executions in SpecFileIO
MaxFileOps == 3
\* the seconds that pass in SpecApproval
MaxApprovalTime == 2

----------------------------------------------------------------------------
(* StateMachine *)

OrchestratorState ==
    {"idle", "planning", "decomposing", "assigning", "executing", "monitoring",
     "evaluating", "retrying", "fallback", "completed", "failed", "paused"}

\* StateMachine.transitions, the fixed edge table
transitions ==
    [s \in OrchestratorState |->
        CASE s = "idle"        -> {"planning", "paused"}
          [] s = "planning"    -> {"decomposing", "idle"}
          [] s = "decomposing" -> {"assigning", "planning"}
          [] s = "assigning"   -> {"executing", "decomposing"}
          [] s = "executing"   -> {"monitoring", "retrying", "fallback"}
          [] s = "monitoring"  -> {"executing", "evaluating", "retrying"}
          [] s = "evaluating"  -> {"executing", "completed", "failed"}
          [] s = "retrying"    -> {"executing", "fallback"}
          [] s = "fallback"    -> {"executing", "failed", "paused"}
          [] s = "completed"   -> {"idle"}
          [] s = "failed"      -> {"idle", "retrying"}
          [] s = "paused"      -> {"idle", "executing"}]

\* self.transitions.get(state, set())
transitions_get(state) ==
    IF state \in DOMAIN transitions THEN transitions[state] ELSE {}

\* StateMachine.can_transition_to
can_transition_to(state) == state \in transitions_get(current_state)

\* a transition() that moves on every call, valid or not
transition_unguarded(new_state) ==
    /\ sm_call' = [target |-> new_state, from |-> current_state]
    /\ current_state' = new_state
    /\ state_history' = Append(state_history, [from |-> current_state, to |-> new_state])
    /\ sm_ret' = (new_state \in transitions_get(current_state))

\* a transition() that moves but records nothing
transition_unrecorded(new_state) ==
    /\ sm_call' = [target |-> new_state, from |-> current_state]
    /\ IF new_state \in transitions_get(current_state)
       THEN /\ current_state' = new_state
            /\ state_history' = state_history
            /\ sm_ret' = TRUE
       ELSE /\ UNCHANGED <<current_state, state_history>>
            /\ sm_ret' = FALSE

\* a transition() that reads the old state after it has set the new one
transition_late_read(new_state) ==
    /\ sm_call' = [target |-> new_state, from |-> current_state]
    /\ IF new_state \in transitions_get(current_state)
       THEN /\ current_state' = new_state
            /\ state_history' = Append(state_history, [from |-> new_state, to |-> new_state])
            /\ sm_ret' = TRUE
       ELSE /\ UNCHANGED <<current_state, state_history>>
            /\ sm_ret' = FALSE

\* StateMachine.transition: the state change, the history record and the return value
transition(new_state) ==
    /\ sm_call' = [target |-> new_state, from |-> current_state]
    /\ IF new_state \in transitions_get(current_state)
       THEN /\ current_state' = new_state
            /\ state_history' = Append(state_history, [from |-> current_state, to |-> new_state])
            /\ sm_ret' = TRUE
       ELSE /\ UNCHANGED <<current_state, state_history>>
            /\ sm_ret' = FALSE

NoCall == [target |-> "none", from |-> "none"]

\* StateMachine.__init__
StateMachine_init ==
    /\ current_state = "idle"
    /\ state_history = <<>>
    /\ sm_call = NoCall
    /\ sm_ret = FALSE

\* a caller invoking sm.transition(target) with any target
CallTransition ==
    \E target \in OrchestratorState :
        /\ Len(state_history) < MaxHistory
        /\ transition(target)
        /\ UNCHANGED orchVars

----------------------------------------------------------------------------
(* PolicyEngine *)

None == "none"

AgentIds == {"agent_1", "agent_2"}

\* rates and quality scores are kept in tenths: 0, 5, 10 stand for 0.0, 0.5, 1.0
PerfLevels == {0, 5, 10}

\* performance.get(agent_id, {}) followed by perf.get(key, 0.0)
perf_get(performance, agent_id, key) ==
    IF agent_id \in DOMAIN performance /\ key \in DOMAIN performance[agent_id]
    THEN performance[agent_id][key]
    ELSE 0

\* The score is computed in binary floating point (IEEE 754 double).  For
\* metrics given in tenths (0.0, 0.1, ... 1.0) the double that
\* success_rate * 0.6 + quality_score * 0.4 evaluates to is the double nearest
\* to the exact value, or its neighbour one unit in the last place above (+1)
\* or below (-1); float_rounding tells which.  Other metric values occur in
\* the model only as figures read from the ledger, where the scores compared
\* are zero or differ by far more than a rounding step.
float_rounding(success_rate, quality_score) ==
    IF <<success_rate, quality_score>> \in
          {<<0, 1>>, <<0, 2>>, <<0, 4>>, <<0, 8>>, <<0, 9>>, <<1, 4>>, <<1, 8>>,
           <<1, 9>>, <<2, 8>>, <<2, 9>>, <<3, 10>>, <<4, 9>>, <<5, 8>>, <<7, 4>>,
           <<7, 10>>, <<8, 9>>, <<9, 1>>, <<9, 2>>, <<9, 4>>, <<9, 7>>, <<9, 8>>,
           <<9, 9>>, <<9, 10>>}
    THEN 1
    ELSE IF <<success_rate, quality_score>> \in
          {<<0, 7>>, <<1, 7>>, <<2, 7>>, <<3, 7>>, <<5, 1>>, <<6, 7>>, <<7, 1>>,
           <<7, 6>>, <<8, 5>>, <<10, 2>>, <<10, 7>>}
    THEN -1
    ELSE 0

\* the score of _select_by_performance, success_rate * 0.6 + quality_score * 0.4,
\* as an integer that orders as the computed doubles do: three times the exact
\* value (in hundredths for metrics in tenths) plus the rounding
performance_score(performance, agent_id) ==
    3 * (perf_get(performance, agent_id, "success_rate") * 6
            + perf_get(performance, agent_id, "quality_score") * 4)
        + float_rounding(perf_get(performance, agent_id, "success_rate"),
                         perf_get(performance, agent_id, "quality_score"))

\* PolicyEngine._select_by_performance: a stable sort by descending score, then
\* the first element: the earliest candidate among those of maximal score
select_by_performance(agents, performance) ==
    LET score(i) == performance_score(performance, agents[i])
        best == CHOOSE i \in 1..Len(agents) :
                    \A j \in 1..Len(agents) :
                        score(j) < score(i) \/ (score(j) = score(i) /\ i <= j)
    IN agents[best]

\* PolicyEngine.select_agent under the strategies that keep no state and draw
\* nothing at random: "performance_based" and the default (first candidate)
select_agent(available_agents, agent_performance) ==
    IF available_agents = <<>> THEN None
    ELSE IF policy.agent_selection_strategy = "performance_based"
         THEN select_by_performance(available_agents, agent_performance)
         ELSE available_agents[1]

\* a should_retry that allows one retry too many
should_retry_off_by_one(task_id, retry_count) ==
    IF ~policy.retry_enabled THEN FALSE
    ELSE IF retry_count > policy.max_retries_per_task THEN FALSE
    ELSE TRUE

\* PolicyEngine.should_retry
should_retry(task_id, retry_count) ==
    IF ~policy.retry_enabled THEN FALSE
    ELSE IF retry_count >= policy.max_retries_per_task THEN FALSE
    ELSE TRUE

\* OrchestratorPolicy: the policies a caller may construct, over the modelled fields
Policies ==
    [agent_selection_strategy : {"performance_based", "round_robin", "random", "first"},
     adaptive_learning_enabled : BOOLEAN,
     task_prioritization_strategy : {"dependency_aware"},
     retry_enabled : BOOLEAN,
     max_retries_per_task : 0..MaxRetries]

----------------------------------------------------------------------------
(* OrchestratorIntelligence *)

\* decompose_mission builds range(1, 4): three tasks per mission
DecomposedTasks == 3
\* the task ids callers pass to assign_tasks, execute_task and monitor_execution
TaskIds == {1, 2}
MissionIds == {"mission_1"}

\* the statuses a caller reports to monitor_execution
ReportedStatus == {"failed", "completed", "in_progress"}

PerfRecords == [success_rate : PerfLevels, quality_score : PerfLevels]
\* the agent_performance dictionaries passed to assign_tasks: no entry at all,
\* an entry for one agent only, or entries that rank the two agents either way
\* or equally
PerfMaps ==
    {[a \in {} |-> 0],
     [a \in {"agent_2"} |-> [success_rate |-> 10, quality_score |-> 5]],
     [a \in AgentIds |-> [success_rate |-> 5, quality_score |-> 5]],
     [a \in AgentIds |-> IF a = "agent_1"
                          THEN [success_rate |-> 10, quality_score |-> 0]
                          ELSE [success_rate |-> 5, quality_score |-> 10]]}
\* available_agents lists
AgentLists == {<<>>, <<"agent_1">>, <<"agent_1", "agent_2">>}

\* PolicyEngine._select_round_robin, the candidate for a cursor value
select_round_robin_late(agents, index) == agents[((index + 1) % Len(agents)) + 1]

\* PolicyEngine._select_round_robin, the candidate for a cursor value
select_round_robin(agents, index) == agents[(index % Len(agents)) + 1]

min(a, b) == IF a <= b THEN a ELSE b

RECURSIVE pow2(_)
pow2(n) == IF n = 0 THEN 1 ELSE 2 * pow2(n - 1)

RetryStrategy == {"immediate", "exponential_backoff", "linear_backoff", "no_retry"}
DelayCap == 60
LinearStep == 5

\* a get_retry_delay without the cap
get_retry_delay_uncapped(retry_count, strategy) ==
    IF strategy = "immediate" THEN 0
    ELSE IF strategy = "exponential_backoff" THEN pow2(retry_count)
    ELSE IF strategy = "linear_backoff" THEN retry_count * LinearStep
    ELSE 0

\* PolicyEngine.get_retry_delay, in seconds
get_retry_delay(retry_count, strategy) ==
    IF strategy = "immediate" THEN 0
    ELSE IF strategy = "exponential_backoff" THEN min(pow2(retry_count), DelayCap)
    ELSE IF strategy = "linear_backoff" THEN retry_count * LinearStep
    ELSE 0

(***************************************************************************)
(* Calls of a PolicyEngine by its owner: select_agent on the candidate     *)
(* list of the run with any performance dictionary, and get_retry_delay.   *)
(***************************************************************************)
\* the metric values callers pass (tenths), and the dictionaries built from
\* them: an agent may have no entry, an entry without quality_score, or both
SelectLevels == {0, 1, 2, 4}
SelectRecords ==
    [success_rate : SelectLevels, quality_score : SelectLevels]
        \cup {[success_rate |-> 2]}
SelectPerfMaps ==
    UNION { [ids -> SelectRecords] : ids \in SUBSET AgentIds }
CandidateLists == AgentLists \cup {<<"agent_2", "agent_1">>}

PeCall(op, performance, retry_count, strategy) ==
    [op |-> op, performance |-> performance, retry_count |-> retry_count,
     strategy |-> strategy]

PolicyEngine_calls_init ==
    /\ candidate_agents = <<>>
    /\ pe_call = PeCall("none", <<>>, 0, "none")
    /\ pe_ret = None
    /\ round_robin_index = 0
    /\ select_calls = 0

\* PolicyEngine.select_agent on the run's candidate list
call_select_agent ==
    /\ select_calls < MaxCalls
    /\ select_calls' = select_calls + 1
    /\ \E agent_performance \in
            (IF policy.agent_selection_strategy = "performance_based"
             THEN SelectPerfMaps ELSE PerfMaps) :
        /\ pe_call' = PeCall("select_agent", agent_performance, 0, "none")
        /\ IF candidate_agents = <<>>
           THEN pe_ret' = None /\ UNCHANGED round_robin_index
           ELSE IF policy.agent_selection_strategy = "round_robin"
           THEN /\ pe_ret' = select_round_robin(candidate_agents, round_robin_index)
                /\ round_robin_index' = round_robin_index + 1
           ELSE IF policy.agent_selection_strategy = "random"
           THEN /\ \E i \in 1..Len(candidate_agents) : pe_ret' = candidate_agents[i]
                /\ UNCHANGED round_robin_index
           ELSE /\ pe_ret' = select_agent(candidate_agents, agent_performance)
                /\ UNCHANGED round_robin_index
    /\ UNCHANGED candidate_agents

\* PolicyEngine.get_retry_delay
call_get_retry_delay ==
    /\ \E retry_count \in 0..MaxRetryCount, strategy \in RetryStrategy :
        /\ pe_call' = PeCall("get_retry_delay", <<>>, retry_count, strategy)
        /\ pe_ret' = get_retry_delay(retry_count, strategy)
    /\ UNCHANGED <<candidate_agents, round_robin_index, select_calls>>

OrchCall(op, task_id, status) == [op |-> op, task |-> task_id, status |-> status]

\* OrchestratorIntelligence.__init__
OrchestratorIntelligence_init ==
    /\ StateMachine_init
    /\ policy \in Policies
    /\ active_assignments = [t \in {} |-> 0]
    /\ mission_tasks = [m \in MissionIds |-> <<>>]
    /\ orch_call = OrchCall("none", 0, "none")
    /\ orch_ret = [ok |-> FALSE]
    /\ fail_reports = [t \in TaskIds |-> 0]
    /\ retry_answers = [t \in TaskIds |-> 0]
    /\ fallback_answers = [t \in TaskIds |-> 0]

reportVars == <<fail_reports, retry_answers, fallback_answers>>

\* OrchestratorIntelligence.start_mission
start_mission ==
    \E mission_id \in MissionIds :
        /\ Len(state_history) < MaxSteps
        /\ orch_call' = OrchCall("start_mission", 0, "none")
        /\ transition("planning")
        /\ orch_ret' = [ok |-> sm_ret']
        /\ UNCHANGED <<policy, active_assignments, mission_tasks, reportVars>>

\* OrchestratorIntelligence.decompose_mission
decompose_mission ==
    \E mission_id \in MissionIds :
        /\ Len(state_history) < MaxSteps
        /\ orch_call' = OrchCall("decompose_mission", 0, "none")
        /\ transition("decomposing")
        /\ IF sm_ret'
           THEN /\ mission_tasks' = [mission_tasks EXCEPT
                                        ![mission_id] = [i \in 1..DecomposedTasks |-> i]]
                /\ orch_ret' = [tasks |-> [i \in 1..DecomposedTasks |-> i]]
           ELSE /\ UNCHANGED mission_tasks
                /\ orch_ret' = [tasks |-> <<>>]
        /\ UNCHANGED <<policy, active_assignments, reportVars>>

\* OrchestratorIntelligence.assign_tasks; tasks is the set of ids of the list
\* passed in (prioritize_tasks(tasks, {}) reorders it, and one assignment is
\* kept per task id)
assign_tasks ==
    \E tasks \in SUBSET TaskIds, available_agents \in AgentLists,
       agent_performance \in PerfMaps :
        /\ Len(state_history) < MaxSteps
        /\ orch_call' = OrchCall("assign_tasks", 0, "none")
        /\ transition("assigning")
        /\ IF sm_ret'
           THEN LET agent_id == select_agent(available_agents, agent_performance)
                    assigned == IF agent_id # None THEN tasks ELSE {}
                IN /\ active_assignments' =
                        [t \in DOMAIN active_assignments \cup assigned |->
                            IF t \in assigned
                            THEN [agent_id |-> agent_id, retry_count |-> 0,
                                  max_retries |-> policy.max_retries_per_task]
                            ELSE active_assignments[t]]
                   /\ orch_ret' = [assigned |-> assigned]
                   /\ fail_reports' = [t \in TaskIds |->
                                          IF t \in assigned THEN 0 ELSE fail_reports[t]]
                   /\ retry_answers' = [t \in TaskIds |->
                                          IF t \in assigned THEN 0 ELSE retry_answers[t]]
                   /\ fallback_answers' = [t \in TaskIds |->
                                          IF t \in assigned THEN 0 ELSE fallback_answers[t]]
           ELSE /\ UNCHANGED <<active_assignments, reportVars>>
                /\ orch_ret' = [assigned |-> {}]
        /\ UNCHANGED <<policy, mission_tasks>>

\* OrchestratorIntelligence.execute_task
execute_task ==
    \E task_id \in TaskIds :
        /\ Len(state_history) < MaxSteps
        /\ orch_call' = OrchCall("execute_task", task_id, "none")
        /\ IF task_id \in DOMAIN active_assignments
           THEN /\ transition("executing")
                /\ orch_ret' = [ok |-> sm_ret']
           ELSE /\ UNCHANGED smVars
                /\ orch_ret' = [ok |-> FALSE]
        /\ UNCHANGED <<policy, active_assignments, mission_tasks, reportVars>>

\* the answer monitor_execution gives once the transition to Monitoring succeeded
monitor_answer(task_id, status) ==
    IF task_id \notin DOMAIN active_assignments THEN "unknown"
    ELSE IF status = "failed"
            /\ should_retry(task_id, active_assignments[task_id].retry_count)
         THEN "retry"
    ELSE IF status = "failed" THEN "fallback"
    ELSE IF status = "completed" THEN "continue"
    ELSE "unknown"

\* OrchestratorIntelligence.monitor_execution
monitor_execution ==
    \E task_id \in TaskIds, status \in ReportedStatus :
        /\ Len(state_history) < MaxSteps
        /\ orch_call' = OrchCall("monitor_execution", task_id, status)
        /\ transition("monitoring")
        /\ orch_ret' = [action |-> IF sm_ret' THEN monitor_answer(task_id, status)
                                   ELSE "empty"]
        /\ active_assignments' =
              IF orch_ret'.action = "retry"
              THEN [active_assignments EXCEPT ![task_id].retry_count = @ + 1]
              ELSE active_assignments
        \* the reports counted: a failure reported for an assigned task after
        \* an attempt (the machine was in Executing), and how it was answered
        /\ fail_reports' =
              IF sm_ret' /\ status = "failed" /\ task_id \in DOMAIN active_assignments
              THEN [fail_reports EXCEPT ![task_id] = @ + 1] ELSE fail_reports
        /\ retry_answers' =
              IF orch_ret'.action = "retry"
              THEN [retry_answers EXCEPT ![task_id] = @ + 1] ELSE retry_answers
        /\ fallback_answers' =
              IF orch_ret'.action = "fallback"
              THEN [fallback_answers EXCEPT ![task_id] = @ + 1] ELSE fallback_answers
        /\ UNCHANGED <<policy, mission_tasks>>

(***************************************************************************)
(* CreditAssignment: the ledger, and the per-agent figures read from it.   *)
(* Scores are percentages (0.7 is 70); a rate is kept in units of          *)
(* 1/RateScale percent so that the divisions of the code are exact.        *)
(***************************************************************************)
RateScale == 8 * 3 * 5 * 7

RECURSIVE SumSeq(_, _)
SumSeq(seq, field) ==
    IF seq = <<>> THEN 0
    ELSE (IF field = "success_credit"
          THEN (IF Head(seq).success THEN 1 ELSE 0)
          ELSE Head(seq).quality_score) + SumSeq(Tail(seq), field)

\* agent_credits.get(agent_id, []) on a per-agent dictionary
credits_get(by_agent, agent_id) ==
    IF agent_id \in DOMAIN by_agent THEN by_agent[agent_id] ELSE <<>>

success_rate_of(by_agent, agent_id) ==
    LET mine == credits_get(by_agent, agent_id)
    IN  IF mine = <<>> THEN 0
        ELSE (100 * SumSeq(mine, "success_credit") * RateScale) \div Len(mine)

average_quality_of(by_agent, agent_id) ==
    LET mine == credits_get(by_agent, agent_id)
    IN  IF mine = <<>> THEN 0
        ELSE (SumSeq(mine, "quality_score") * RateScale) \div Len(mine)

get_agent_total_credit(agent_id) ==
    SumSeq(credits_get(agent_credits, agent_id), "success_credit")

get_agent_success_rate(agent_id) == success_rate_of(agent_credits, agent_id)

get_agent_average_quality(agent_id) == average_quality_of(agent_credits, agent_id)

\* all records belong to the one mission of a run
get_mission_credits == credits

AgentCredit(agent_id, task_id, success, quality_score) ==
    [agent_id |-> agent_id, task_id |-> task_id,
     success |-> success, quality_score |-> quality_score]

\* an assign_credit that files the record in the global list only
assign_credit_global_only(agent_id, task_id, success, quality_score) ==
    /\ credits' = Append(credits, AgentCredit(agent_id, task_id, success, quality_score))
    /\ agent_credits' = agent_credits

\* CreditAssignment.assign_credit
assign_credit(agent_id, task_id, success, quality_score) ==
    LET credit == AgentCredit(agent_id, task_id, success, quality_score)
    IN  /\ credits' = Append(credits, credit)
        /\ agent_credits' =
              [a \in DOMAIN agent_credits \cup {agent_id} |->
                  IF a = agent_id
                  THEN Append(credits_get(agent_credits, agent_id), credit)
                  ELSE agent_credits[a]]

(***************************************************************************)
(* AdaptiveOrchestrator: the adaptation weights.  A weight is kept in the  *)
(* unit in which 1.0 is DefaultWeight, the unit of 0.6 * rate + 0.4 *      *)
(* quality on the ledger's figures.                                        *)
(***************************************************************************)
DefaultWeight == 1000 * RateScale

\* success_rate * 0.6 + quality * 0.4
combined_score(success_rate, quality) == success_rate * 6 + quality * 4

\* adaptation_weights[key] of the defaultdict
weight_of(weights, key) == IF key \in DOMAIN weights THEN weights[key] ELSE DefaultWeight

\* the key f"task_{task_id}"
task_key(task_id) == <<"task_1", "task_2">>[task_id]

\* task_outcomes dictionaries
OutcomeMaps == UNION { [ids -> BOOLEAN] : ids \in SUBSET TaskIds }

\* the weights after adapt_agent_selection; the metrics of the dictionary are
\* in tenths
adapt_agent_selection(agent_performance) ==
    IF ~policy.adaptive_learning_enabled
    THEN adaptation_weights
    ELSE [k \in DOMAIN adaptation_weights \cup DOMAIN agent_performance |->
             IF k \in DOMAIN agent_performance
             THEN combined_score(perf_get(agent_performance, k, "success_rate") * 10 * RateScale,
                                 perf_get(agent_performance, k, "quality_score") * 10 * RateScale)
             ELSE adaptation_weights[k]]

\* the weights after adapt_task_prioritization
adapt_task_prioritization(task_outcomes) ==
    IF ~policy.adaptive_learning_enabled
    THEN adaptation_weights
    ELSE LET failed == {task_key(t) : t \in {u \in DOMAIN task_outcomes : ~task_outcomes[u]}}
         IN  [k \in DOMAIN adaptation_weights \cup failed |->
                 IF k \in failed
                 THEN (weight_of(adaptation_weights, k) * 9) \div 10
                 ELSE adaptation_weights[k]]

get_adaptive_agent_score(agent_id, base_score) ==
    (base_score * weight_of(adaptation_weights, agent_id)) \div DefaultWeight

\* an update_from_credits that leaves the weights as they are
update_from_credits_skipped(weights, by_agent) == weights

\* the weights after update_from_credits on a ledger
update_from_credits(weights, by_agent) ==
    [k \in DOMAIN weights \cup DOMAIN by_agent |->
        IF k \in DOMAIN by_agent
        THEN combined_score(success_rate_of(by_agent, k), average_quality_of(by_agent, k))
        ELSE weights[k]]

\* OrchestratorIntelligence.assign_credit: the ledger write and the refresh
facade_assign_credit(agent_id, task_id, success, quality_score) ==
    /\ assign_credit(agent_id, task_id, success, quality_score)
    /\ adaptation_weights' = update_from_credits(adaptation_weights, agent_credits')

(***************************************************************************)
(* Calls of the ledger and of the adaptive orchestrator by their owner.    *)
(***************************************************************************)
NoCredit == AgentCredit(None, 0, FALSE, 0)
LedgerCall(op, agent_id, credit) == [op |-> op, agent_id |-> agent_id, credit |-> credit]
LedgerRet(value, records) == [value |-> value, records |-> records]
QualityLevels == {50, 90}
LedgerQueries == {"get_agent_total_credit", "get_agent_success_rate",
                  "get_agent_average_quality", "get_mission_credits",
                  "get_adaptive_agent_score"}

CreditAssignment_init ==
    /\ agent_credits = <<>>
    /\ adaptation_weights = <<>>
    /\ ledger_call = LedgerCall("none", None, NoCredit)
    /\ ledger_ret = LedgerRet(0, <<>>)
    /\ ledger_calls = 0

call_assign_credit ==
    /\ ledger_calls < MaxLedgerCalls
    /\ ledger_calls' = ledger_calls + 1
    /\ \E agent_id \in AgentIds, task_id \in TaskIds, success \in BOOLEAN,
          quality_score \in QualityLevels :
        /\ facade_assign_credit(agent_id, task_id, success, quality_score)
        /\ ledger_call' = LedgerCall("assign_credit", agent_id,
                                     AgentCredit(agent_id, task_id, success, quality_score))
        /\ ledger_ret' = LedgerRet(0, <<AgentCredit(agent_id, task_id, success, quality_score)>>)

call_ledger_query ==
    /\ ledger_calls < MaxLedgerCalls
    /\ ledger_calls' = ledger_calls + 1
    /\ \E op \in LedgerQueries, agent_id \in AgentIds :
        /\ ledger_call' = LedgerCall(op, agent_id, NoCredit)
        /\ ledger_ret' =
              CASE op = "get_agent_total_credit" ->
                      LedgerRet(get_agent_total_credit(agent_id), <<>>)
                [] op = "get_agent_success_rate" ->
                      LedgerRet(get_agent_success_rate(agent_id), <<>>)
                [] op = "get_agent_average_quality" ->
                      LedgerRet(get_agent_average_quality(agent_id), <<>>)
                [] op = "get_mission_credits" -> LedgerRet(0, get_mission_credits)
                [] OTHER -> LedgerRet(get_adaptive_agent_score(agent_id, 100), <<>>)
    /\ UNCHANGED <<credits, agent_credits, adaptation_weights>>

call_adapt_agent_selection ==
    /\ ledger_calls < MaxLedgerCalls
    /\ ledger_calls' = ledger_calls + 1
    /\ \E agent_performance \in PerfMaps :
        adaptation_weights' = adapt_agent_selection(agent_performance)
    /\ ledger_call' = LedgerCall("adapt_agent_selection", None, NoCredit)
    /\ ledger_ret' = LedgerRet(0, <<>>)
    /\ UNCHANGED <<credits, agent_credits>>

call_adapt_task_prioritization ==
    /\ ledger_calls < MaxLedgerCalls
    /\ ledger_calls' = ledger_calls + 1
    /\ \E task_outcomes \in OutcomeMaps :
        adaptation_weights' = adapt_task_prioritization(task_outcomes)
    /\ ledger_call' = LedgerCall("adapt_task_prioritization", None, NoCredit)
    /\ ledger_ret' = LedgerRet(0, <<>>)
    /\ UNCHANGED <<credits, agent_credits>>

(***************************************************************************)
(* ControllerAgent: the two decisions the flow asks it for.  A decision is *)
(* the dict the controller returns, with the keys the flow reads.          *)
(***************************************************************************)
EscalationThreshold == 2

dict_get(d, key, default) == IF key \in DOMAIN d THEN d[key] ELSE default

escalate_failure(task_id) ==
    LET count == failure_count[task_id] + 1
        escalation_level == IF count < EscalationThreshold THEN "low" ELSE "high"
    IN  [level |-> escalation_level,
         failure_count |-> count,
         action |-> IF escalation_level = "high" THEN "human_intervention" ELSE "retry"]

manage_retry(current_retry, max_retries) ==
    IF current_retry < max_retries
    THEN [action |-> "retry", retry_count |-> current_retry + 1, max_retries |-> max_retries]
    ELSE [action |-> "escalate"]

(***************************************************************************)
(* ExecutionFlow                                                           *)
(***************************************************************************)
ContinueScore == 70
AcceptScore == 80
FlowMaxRetries == 3

FlowTaskIds == 1..MaxTasks
\* the agents of the registry, in registration order
RegisteredAgents == <<"agent_1", "agent_2">>
\* what an agent's execute_task and the evaluator can answer
AgentStatus == {"completed", "failed"}
ScoreLevels == {50, 90}
\* the max_iterations arguments explored
MaxIterationsArgs == {0, 1, 2}
\* dependency layouts a decomposer can return: no dependencies, every task
\* depending on the task listed before it, every task depending on the task
\* listed after it
DependencyShapes == {"none", "chain", "reversed"}

task_dependencies(shape, i, n) ==
    CASE shape = "none" -> {}
      [] shape = "chain" -> IF i > 1 THEN {i - 1} ELSE {}
      [] shape = "reversed" -> IF i < n THEN {i + 1} ELSE {}

FlowTaskLists ==
    { [i \in 1..n |-> [task_id |-> i, dependencies |-> task_dependencies(shape, i, n)]] :
        n \in 1..MaxTasks, shape \in DependencyShapes }

NoTasks == [t \in {} |-> "pending"]
NoOutcome ==
    [mission_id |-> None, goal |-> None, outcome |-> "none", tasks_count |-> 0,
     successful_tasks |-> 0, failed_tasks |-> 0]

\* the id CoreMission.define_mission gives the flow's mission
MissionId == "mission_1"

\* the goals a caller states
Goals == {"goal_a", "goal_b"}

RECURSIVE SumScores(_)
SumScores(f) ==
    IF DOMAIN f = {} THEN 0
    ELSE LET t == CHOOSE x \in DOMAIN f : TRUE
         IN  f[t] + SumScores([x \in DOMAIN f \ {t} |-> f[x]])

\* ApprovalStatus of human_approval.py
ApprovalStatus == {"pending", "approved", "rejected", "auto_approved"}

ExecutionFlow_init ==
    /\ plan_approval = "none"
    /\ flow_pc = "idle"
    /\ flow_idx = 0
    /\ max_iterations = 0
    /\ iteration = 0
    /\ has_best = FALSE
    /\ best_score = [num |-> 0, den |-> 1]
    /\ mission_status = "none"
    /\ task_status = NoTasks
    /\ scores = [t \in {} |-> 0]
    /\ task_retries = [t \in FlowTaskIds |-> 0]
    /\ failure_count = [t \in FlowTaskIds |-> 0]
    /\ credits = <<>>
    /\ agent_runs = [t \in FlowTaskIds |-> 0]
    /\ dispatch_log = <<>>
    /\ project_outcome = NoOutcome
    /\ mission_goal = None
    /\ short_term_project = <<>>
    /\ flow_result = "none"

update_task_status(stat, task_id, status) ==
    IF task_id \in DOMAIN stat THEN [stat EXCEPT ![task_id] = status] ELSE stat

\* MemorySystem.record_mission_completion, without ShortTermMemory.clear_project
record_mission_completion_keeping(outcome) ==
    IF short_term_project # <<>>
    THEN /\ project_outcome' =
            [mission_id |-> MissionId,
             goal |-> short_term_project[1],
             outcome |-> outcome,
             tasks_count |-> Cardinality(DOMAIN task_status),
             successful_tasks |->
                Cardinality({t \in DOMAIN task_status : task_status[t] = "completed"}),
             failed_tasks |-> Cardinality({t \in DOMAIN task_status : task_status[t] = "failed"})]
         /\ short_term_project' = short_term_project
    ELSE UNCHANGED <<project_outcome, short_term_project>>

\* MemorySystem.record_mission_completion, called with the flow's project state
record_mission_completion(outcome) ==
    IF short_term_project # <<>>
    THEN /\ project_outcome' =
            [mission_id |-> MissionId,
             goal |-> short_term_project[1],
             outcome |-> outcome,
             tasks_count |-> Cardinality(DOMAIN task_status),
             successful_tasks |->
                Cardinality({t \in DOMAIN task_status : task_status[t] = "completed"}),
             failed_tasks |-> Cardinality({t \in DOMAIN task_status : task_status[t] = "failed"})]
         /\ short_term_project' = <<>>
    ELSE UNCHANGED <<project_outcome, short_term_project>>

\* execute_mission up to the loop: the mission is defined and set in progress;
\* with no iteration allowed the loop is skipped and the code after it returns
execute_mission ==
    /\ flow_pc = "idle"
    /\ \E n \in MaxIterationsArgs :
        /\ max_iterations' = n
        /\ IF 0 < n
           THEN flow_pc' = "planning" /\ UNCHANGED flow_result
           ELSE flow_pc' = "returned" /\ flow_result' = "failed"
    /\ \E goal \in Goals :
        /\ mission_goal' = goal
        /\ short_term_project' = <<goal>>
    /\ mission_status' = "in_progress"
    /\ iteration' = 0
    /\ has_best' = FALSE
    /\ best_score' = [num |-> 0, den |-> 1]
    /\ task_status' = NoTasks
    /\ UNCHANGED <<flow_tasks, flow_idx, scores, task_retries, failure_count, ledgerVars,
                   agent_runs, dispatch_log, project_outcome>>
    /\ UNCHANGED plan_approval
    /\ UNCHANGED <<smVars, orchVars>>

\* the except branch of execute_mission's loop, and the code after the loop
\* that a break leads to
handle_exception ==
    IF iteration = 0
    THEN /\ mission_status' = "failed"
         /\ record_mission_completion("failure")
         /\ flow_result' = "failed"
    ELSE IF has_best
         THEN /\ mission_status' = "completed"
              /\ record_mission_completion("success")
              /\ flow_result' = "completed"
         ELSE /\ flow_result' = "failed"
              /\ UNCHANGED <<mission_status, project_outcome, short_term_project>>

\* _phase_planning: the facade's start_mission, the planner, the plan approval
phase_planning ==
    /\ flow_pc = "planning"
    /\ transition("planning")
    /\ \E status \in ApprovalStatus :
        /\ plan_approval' = status
        /\ IF status \in {"approved", "auto_approved"}
           THEN /\ flow_pc' = "decomposition"
                /\ UNCHANGED <<mission_status, project_outcome, flow_result,
                               short_term_project>>
           ELSE /\ handle_exception
                /\ flow_pc' = "returned"
    /\ UNCHANGED <<flow_tasks, flow_idx, max_iterations, iteration, has_best, best_score,
                   task_status, scores, task_retries, failure_count, ledgerVars, agent_runs,
                   dispatch_log>>
    /\ UNCHANGED <<orchVars, mission_goal>>

\* _phase_decomposition: every task of the decomposer's list is added, pending
phase_decomposition ==
    /\ flow_pc = "decomposition"
    /\ task_status' = [t \in {flow_tasks[i].task_id : i \in 1..Len(flow_tasks)} |-> "pending"]
    /\ flow_idx' = 1
    /\ flow_pc' = "execution"
    /\ UNCHANGED <<flow_tasks, max_iterations, iteration, has_best, best_score,
                   mission_status, scores, task_retries, failure_count, ledgerVars, agent_runs,
                   dispatch_log, project_outcome, flow_result>>
    /\ plan_approval' = "none"
    /\ UNCHANGED <<mission_goal, short_term_project>>
    /\ UNCHANGED <<smVars, orchVars>>

\* a _controller_select_agent that finds no figures in the ledger and falls
\* back on the defaults 0.5 and 0.5
controller_select_agent_defaults ==
    select_agent(RegisteredAgents,
                 [a \in {RegisteredAgents[i] : i \in 1..Len(RegisteredAgents)} |->
                     [success_rate |-> 50 * RateScale, quality_score |-> 50 * RateScale]])

\* _controller_select_agent: the policy's choice on the ledger's figures
controller_select_agent ==
    select_agent(RegisteredAgents,
                 [a \in {RegisteredAgents[i] : i \in 1..Len(RegisteredAgents)} |->
                     [success_rate |-> get_agent_success_rate(a),
                      quality_score |-> get_agent_average_quality(a)]])

\* a _controller_decide_action that continues only from the score that ends
\* the mission
controller_decide_action_strict(task_id, status, overall_score) ==
    IF status = "completed" /\ overall_score >= AcceptScore
    THEN [action |-> "continue"]
    ELSE IF status = "failed"
         THEN escalate_failure(task_id)
         ELSE manage_retry(0, FlowMaxRetries)

controller_decide_action(task_id, status, overall_score) ==
    IF status = "completed" /\ overall_score >= ContinueScore
    THEN [action |-> "continue"]
    ELSE IF status = "failed"
         THEN escalate_failure(task_id)
         ELSE manage_retry(0, FlowMaxRetries)

\* the task status after the flow has acted on the controller's decision
status_after_decision(stat, task_id, decision) ==
    CASE decision.action = "continue" -> update_task_status(stat, task_id, "completed")
      [] decision.action = "retry" ->
            IF dict_get(decision, "retry_count", 1) <= dict_get(decision, "max_retries", FlowMaxRetries)
            THEN update_task_status(stat, task_id, "retrying")
            ELSE stat
      [] decision.action = "escalate" -> update_task_status(stat, task_id, "failed")
      [] OTHER -> stat

\* the metadata after _handle_retry
retries_after_decision(task_id, decision) ==
    IF /\ decision.action = "retry"
       /\ dict_get(decision, "retry_count", 1) <= dict_get(decision, "max_retries", FlowMaxRetries)
    THEN [task_retries EXCEPT ![task_id] = dict_get(decision, "retry_count", 1)]
    ELSE task_retries

dependencies_completed(task) ==
    \A d \in task.dependencies : d \in DOMAIN task_status /\ task_status[d] = "completed"

\* one pass of _phase_execution's loop, the next task of the list, with the
\* agent's status and the evaluator's score drawn from the sets given
phase_execution_task(statuses, score_levels) ==
    /\ flow_pc = "execution"
    /\ flow_idx <= Len(flow_tasks)
    /\ LET task == flow_tasks[flow_idx]
           task_id == task.task_id
           in_progress == update_task_status(task_status, task_id, "in_progress")
           selected_agent == controller_select_agent
       IN  IF selected_agent = None
           THEN /\ task_status' = in_progress
                /\ UNCHANGED <<scores, task_retries, failure_count, ledgerVars, agent_runs,
                               dispatch_log>>
           ELSE \E status \in statuses, overall_score \in score_levels :
                LET decision == controller_decide_action(task_id, status, overall_score)
                IN  /\ agent_runs' = [agent_runs EXCEPT ![task_id] = @ + 1]
                    /\ dispatch_log' = Append(dispatch_log,
                                              [task_id |-> task_id,
                                               agent_id |-> selected_agent,
                                               status |-> status,
                                               dependencies_completed |-> dependencies_completed(task)])
                    /\ scores' = [t \in DOMAIN scores \cup {task_id} |->
                                     IF t = task_id THEN overall_score ELSE scores[t]]
                    /\ failure_count' = IF decision.action # "continue" /\ status = "failed"
                                        THEN [failure_count EXCEPT ![task_id] = @ + 1]
                                        ELSE failure_count
                    /\ task_status' = status_after_decision(in_progress, task_id, decision)
                    /\ task_retries' = retries_after_decision(task_id, decision)
                    /\ facade_assign_credit(selected_agent, task_id, status = "completed",
                                            overall_score)
                    /\ UNCHANGED <<ledger_call, ledger_ret, ledger_calls>>
    /\ flow_idx' = flow_idx + 1
    /\ UNCHANGED <<flow_pc, flow_tasks, max_iterations, iteration, has_best, best_score,
                   mission_status, project_outcome, flow_result>>
    /\ UNCHANGED <<plan_approval, mission_goal, short_term_project>>
    /\ UNCHANGED <<smVars, orchVars>>

\* one pass of _phase_execution's loop under any agent and any evaluator
execute_next_task == phase_execution_task(AgentStatus, ScoreLevels)

\* the scores of Scenario A's evaluators: one that sends the task back, the
\* EvaluatorAgent of agents.py (the mean of 0.8, 0.75 and 0.7), one that accepts
ScenarioAScores == {50, 75, 90}

\* one pass of _phase_execution's loop in Scenario A
scenario_a_task == phase_execution_task(AgentStatus, ScenarioAScores)

\* the rest of the loop body once every task of the list has been visited:
\* _phase_integration, the summary, and the decision to return or to iterate
finish_iteration ==
    /\ flow_pc = "execution"
    /\ flow_idx > Len(flow_tasks)
    /\ LET total == SumScores(scores)
           count == Cardinality(DOMAIN scores)
           current_score == IF count = 0 THEN [num |-> 0, den |-> 1]
                            ELSE [num |-> total, den |-> count]
           better == current_score.num * best_score.den > best_score.num * current_score.den
       IN  /\ has_best' = (has_best \/ better)
           /\ best_score' = IF better THEN current_score ELSE best_score
           /\ IF \/ current_score.num >= AcceptScore * current_score.den
                 \/ iteration >= max_iterations - 1
              THEN /\ mission_status' = "completed"
                   /\ record_mission_completion("success")
                   /\ flow_result' = "completed"
                   /\ flow_pc' = "returned"
                   /\ UNCHANGED <<iteration, task_status>>
              ELSE /\ iteration' = iteration + 1
                   /\ task_status' = NoTasks
                   /\ short_term_project' = <<mission_goal>>
                   /\ flow_pc' = "planning"
                   /\ UNCHANGED <<mission_status, project_outcome, flow_result>>
    /\ UNCHANGED <<flow_tasks, flow_idx, max_iterations, scores, task_retries, failure_count,
                   ledgerVars, agent_runs, dispatch_log>>
    /\ UNCHANGED <<plan_approval, mission_goal>>
    /\ UNCHANGED <<smVars, orchVars>>

(***************************************************************************)
(* PolicyEngine.prioritize_tasks, dependency aware.  A task is the dict of *)
(* the caller: its task_id and, standing for the rest of the dict, its     *)
(* place in the caller's list.  The dependency map is total over the ids,  *)
(* an id without an entry having the empty list (dependencies.get).        *)
(***************************************************************************)
\* the task ids a caller uses
PriTaskIds == {1, 2, 3}

TaskListsOfLen(n) ==
    { [i \in 1..n |-> [task_id |-> ids[i], index |-> i]] : ids \in [1..n -> PriTaskIds] }
PriTaskLists == UNION { TaskListsOfLen(n) : n \in 0..MaxPriTasks }
DependencyMaps == [PriTaskIds -> SUBSET PriTaskIds]

\* {t["task_id"]: t for t in tasks}: a later task replaces an earlier one of the same id
task_map(task_list) ==
    [id \in {task_list[i].task_id : i \in 1..Len(task_list)} |->
        task_list[CHOOSE i \in 1..Len(task_list) :
                      /\ task_list[i].task_id = id
                      /\ \A j \in 1..Len(task_list) : task_list[j].task_id = id => j <= i]]

\* one pass over remaining: the tasks any of whose dependencies is outside it
batch_any(rem, deps) ==
    {task_id \in rem : \E dep \in deps[task_id] : dep \notin rem}

\* one pass over remaining: the tasks none of whose dependencies is in it
batch_of(rem, deps) ==
    {task_id \in rem : \A dep \in deps[task_id] : dep \notin rem}

\* the orders in which a set can be iterated
Orderings(S) ==
    {seq \in [1..Cardinality(S) -> S] : \A i, j \in 1..Cardinality(S) : seq[i] = seq[j] => i = j}

append_tasks(order) ==
    ready_tasks \o [i \in 1..Len(order) |-> task_map(pri_tasks)[order[i]]]

PolicyEngine_prioritize_init ==
    /\ pri_pc = "idle"
    /\ pri_tasks = <<>>
    /\ pri_dependencies = [id \in PriTaskIds |-> {}]
    /\ remaining = {}
    /\ ready_tasks = <<>>

\* prioritize_tasks up to the loop of _prioritize_by_dependencies
prioritize_tasks ==
    /\ pri_pc = "idle"
    /\ policy.task_prioritization_strategy = "dependency_aware"
    /\ \E task_list \in PriTaskLists, deps \in DependencyMaps :
        /\ pri_tasks' = task_list
        /\ pri_dependencies' = deps
        /\ remaining' = DOMAIN task_map(task_list)
    /\ ready_tasks' = <<>>
    /\ pri_pc' = "loop"

\* one pass of the while loop with a batch: the batch moves to the result
prioritize_pass ==
    /\ pri_pc = "loop"
    /\ remaining # {}
    /\ LET batch == batch_of(remaining, pri_dependencies)
       IN  /\ batch # {}
           /\ \E order \in Orderings(batch) : ready_tasks' = append_tasks(order)
           /\ remaining' = remaining \ batch
    /\ UNCHANGED <<pri_pc, pri_tasks, pri_dependencies>>

\* the loop ends (nothing remains, or the batch is empty) and what remains
\* is appended
prioritize_return ==
    /\ pri_pc = "loop"
    /\ remaining = {} \/ batch_of(remaining, pri_dependencies) = {}
    /\ \E order \in Orderings(remaining) : ready_tasks' = append_tasks(order)
    /\ pri_pc' = "done"
    /\ UNCHANGED <<pri_tasks, pri_dependencies, remaining>>

(***************************************************************************)
(* StoppingConditionManager.  A manager is the record of its attributes;   *)
(* start_time is <<>> while None and <<t>> once set.  Confidence is in     *)
(* tenths, scores in percent, time in seconds.  A second manager, built    *)
(* anew with the same conditions whenever the first is reset, is given the *)
(* same calls.                                                             *)
(***************************************************************************)
StoppingCondition == {"confidence_threshold", "score_convergence", "human_intervention",
                      "max_iterations", "time_limit", "success_criteria"}

StoppingConditionConfig(condition_type, threshold, enabled, callback) ==
    [condition_type |-> condition_type, threshold |-> threshold,
     enabled |-> enabled, callback |-> callback]

\* the conditions callers register: those of the tests and the scenarios, a
\* convergence and a time limit, and a type check_conditions has no branch
\* for, all enabled and without a callback; a confidence threshold with a
\* callback; a disabled confidence threshold with a callback and a disabled
\* iteration limit
ConditionKinds ==
    {<<"confidence_threshold", 8>>, <<"score_convergence", 5>>, <<"max_iterations", 2>>,
     <<"max_iterations", 5>>, <<"time_limit", 2>>, <<"human_intervention", 0>>}
ConditionConfigs ==
    {StoppingConditionConfig(k[1], k[2], TRUE, FALSE) : k \in ConditionKinds}
        \cup {StoppingConditionConfig("confidence_threshold", 8, TRUE, TRUE),
              StoppingConditionConfig("confidence_threshold", 8, FALSE, TRUE),
              StoppingConditionConfig("max_iterations", 2, FALSE, FALSE)}

\* the current_metrics dictionaries passed to check_conditions
MetricsArgs ==
    {<<>>,
     [confidence |-> 9],
     [confidence |-> 5],
     [scores |-> <<70, 90>>],
     [scores |-> <<70, 71>>],
     [confidence |-> 5, scores |-> <<90>>]}

StoppingConditionManager_new(conditions) ==
    [conditions |-> conditions, metrics |-> <<>>, iteration_count |-> 0, start_time |-> <<>>]

abs(x) == IF x < 0 THEN -x ELSE x

\* dict.update
dict_update(d, other) ==
    [k \in DOMAIN d \cup DOMAIN other |-> IF k \in DOMAIN other THEN other[k] ELSE d[k]]

\* the test with an iteration limit that is met only once it is exceeded
condition_met_strict(self, condition, current_metrics, clock) ==
    CASE condition.condition_type = "confidence_threshold" ->
            dict_get(current_metrics, "confidence", 0) >= condition.threshold
      [] condition.condition_type = "score_convergence" ->
            LET latest == dict_get(self.metrics, "scores", <<>>)
            IN  /\ Len(latest) >= 2
                /\ abs(latest[Len(latest)] - latest[Len(latest) - 1]) < condition.threshold
      [] condition.condition_type = "max_iterations" ->
            self.iteration_count > condition.threshold
      [] condition.condition_type = "time_limit" ->
            clock - self.start_time[1] >= condition.threshold
      [] OTHER -> FALSE

\* the test of one branch of check_conditions' loop on the updated manager
condition_met(self, condition, current_metrics, clock) ==
    CASE condition.condition_type = "confidence_threshold" ->
            dict_get(current_metrics, "confidence", 0) >= condition.threshold
      [] condition.condition_type = "score_convergence" ->
            LET latest == dict_get(self.metrics, "scores", <<>>)
            IN  /\ Len(latest) >= 2
                /\ abs(latest[Len(latest)] - latest[Len(latest) - 1]) < condition.threshold
      [] condition.condition_type = "max_iterations" ->
            self.iteration_count >= condition.threshold
      [] condition.condition_type = "time_limit" ->
            clock - self.start_time[1] >= condition.threshold
      [] OTHER -> FALSE

\* the position at which the loop returns, as if it returned at the last
\* condition met
loop_exit_last(self, current_metrics, clock) ==
    LET met == {i \in 1..Len(self.conditions) :
                   /\ self.conditions[i].enabled
                   /\ condition_met(self, self.conditions[i], current_metrics, clock)}
    IN  IF met = {} THEN 0 ELSE CHOOSE i \in met : \A j \in met : j <= i

\* the position in self.conditions at which the loop returns, 0 if it runs
\* to the end
loop_exit(self, current_metrics, clock) ==
    LET met == {i \in 1..Len(self.conditions) :
                   /\ self.conditions[i].enabled
                   /\ condition_met(self, self.conditions[i], current_metrics, clock)}
    IN  IF met = {} THEN 0 ELSE CHOOSE i \in met : \A j \in met : i <= j

\* one call of a condition's callback: the condition's place in the list and
\* the two arguments
CallbackCall(position, condition_type, metrics) ==
    [position |-> position, condition_type |-> condition_type, metrics |-> metrics]

\* the callbacks invoked by a loop that goes on after a condition is met
callbacks_of_all_met(self, i, current_metrics, clock) ==
    LET met == SelectSeq([j \in 1..Len(self.conditions) |-> j],
                         LAMBDA j : /\ j >= i
                                    /\ self.conditions[j].enabled
                                    /\ self.conditions[j].callback
                                    /\ condition_met(self, self.conditions[j],
                                                     current_metrics, clock))
    IN  [k \in 1..Len(met) |->
            CallbackCall(met[k], self.conditions[met[k]].condition_type, current_metrics)]

\* the callbacks check_conditions' loop invokes from the i-th condition on, on
\* the updated manager
RECURSIVE callbacks_invoked(_, _, _, _)
callbacks_invoked(self, i, current_metrics, clock) ==
    IF i > Len(self.conditions) THEN <<>>
    ELSE LET condition == self.conditions[i]
         IN  IF ~condition.enabled
             THEN callbacks_invoked(self, i + 1, current_metrics, clock)
             ELSE IF condition_met(self, condition, current_metrics, clock)
             THEN IF condition.callback
                  THEN <<CallbackCall(i, condition.condition_type, current_metrics)>>
                  ELSE <<>>
             ELSE callbacks_invoked(self, i + 1, current_metrics, clock)

\* StoppingConditionManager.check_conditions: the manager after the call, the
\* value returned and the callbacks invoked
check_conditions(self, current_metrics, clock) ==
    LET updated == [self EXCEPT
                       !.metrics = dict_update(self.metrics, current_metrics),
                       !.iteration_count = self.iteration_count + 1,
                       !.start_time = IF self.start_time = <<>> THEN <<clock>>
                                      ELSE self.start_time]
        exit == loop_exit(updated, current_metrics, clock)
    IN  [self |-> updated,
         ret |-> IF exit = 0 THEN None ELSE updated.conditions[exit].condition_type,
         callback |-> callbacks_invoked(updated, 1, current_metrics, clock)]

\* a reset that keeps the metrics
reset_keeping_metrics(self) ==
    [self EXCEPT !.iteration_count = 0, !.start_time = <<>>]

\* StoppingConditionManager.reset
reset(self) ==
    [self EXCEPT !.metrics = <<>>, !.iteration_count = 0, !.start_time = <<>>]

add_condition(self, condition) ==
    [self EXCEPT !.conditions = Append(self.conditions, condition)]

StopCall(op, current_metrics) == [op |-> op, current_metrics |-> current_metrics]
StopRet(ret, callback) == [ret |-> ret, callback |-> callback]

StoppingConditionManager_init ==
    /\ stopping_manager = StoppingConditionManager_new(<<>>)
    /\ fresh_manager = StoppingConditionManager_new(<<>>)
    /\ stop_call = StopCall("none", <<>>)
    /\ stop_ret = StopRet(None, <<>>)
    /\ fresh_ret = StopRet(None, <<>>)
    /\ clock_now = 0
    /\ check_calls = 0
    /\ reset_done = FALSE

call_add_condition ==
    /\ Len(stopping_manager.conditions) \in {0, 1}
    /\ \E condition \in ConditionConfigs :
        /\ stopping_manager' = add_condition(stopping_manager, condition)
        /\ fresh_manager' = add_condition(fresh_manager, condition)
    /\ stop_call' = StopCall("add_condition", <<>>)
    /\ stop_ret' = StopRet(None, <<>>)
    /\ fresh_ret' = StopRet(None, <<>>)
    /\ UNCHANGED <<clock_now, check_calls, reset_done>>

\* a check, some seconds after the last call
call_check_conditions ==
    /\ check_calls < MaxChecks
    /\ check_calls' = check_calls + 1
    /\ \E current_metrics \in MetricsArgs, seconds \in {0, 1} :
        LET mine == check_conditions(stopping_manager, current_metrics, clock_now + seconds)
            other == check_conditions(fresh_manager, current_metrics, clock_now + seconds)
        IN  /\ clock_now' = clock_now + seconds
            /\ stopping_manager' = mine.self
            /\ stop_ret' = StopRet(mine.ret, mine.callback)
            /\ fresh_manager' = other.self
            /\ fresh_ret' = StopRet(other.ret, other.callback)
            /\ stop_call' = StopCall("check_conditions", current_metrics)
    /\ UNCHANGED reset_done

call_reset ==
    /\ stopping_manager' = reset(stopping_manager)
    /\ fresh_manager' = StoppingConditionManager_new(stopping_manager.conditions)
    /\ stop_call' = StopCall("reset", <<>>)
    /\ stop_ret' = StopRet(None, <<>>)
    /\ fresh_ret' = StopRet(None, <<>>)
    /\ reset_done' = TRUE
    /\ UNCHANGED <<clock_now, check_calls>>

(***************************************************************************)
(* HumanApprovalManager.  The request "approval_<n>" is the n-th element   *)
(* of requests; a request is its status and its auto_approve_after, <<>>   *)
(* while None.  Time is in seconds.                                        *)
(***************************************************************************)
MilestoneType == {"mission_plan", "final_delivery"}

\* the constructor arguments: auto_approve_enabled, auto_approve_timeout
ApprovalConfigs ==
    {[auto_approve_enabled |-> FALSE, auto_approve_timeout |-> 1],
     [auto_approve_enabled |-> TRUE, auto_approve_timeout |-> 0],
     [auto_approve_enabled |-> TRUE, auto_approve_timeout |-> 1]}

ApprovalRequest(status, auto_approve_after) ==
    [status |-> status, auto_approve_after |-> auto_approve_after]

\* the request ids a caller names: those issued so far and one never issued
RequestIds == 1..(Len(requests) + 1)

ApprovalCall(op, request_id) == [op |-> op, request_id |-> request_id]

HumanApprovalManager_init ==
    /\ approval_config \in ApprovalConfigs
    /\ requests = <<>>
    /\ approval_callbacks = <<>>
    /\ auto_approved_milestones = {}
    /\ approval_call = ApprovalCall("none", 0)
    /\ approval_ret = None
    /\ approval_now = 0

\* an approve that does not look at the status
approve_any(reqs, request_id) ==
    IF request_id \notin DOMAIN reqs
    THEN [requests |-> reqs, ret |-> FALSE]
    ELSE [requests |-> [reqs EXCEPT ![request_id].status = "approved"], ret |-> TRUE]

\* HumanApprovalManager.approve: the requests after the call and the return value
approve(reqs, request_id) ==
    IF request_id \notin DOMAIN reqs
    THEN [requests |-> reqs, ret |-> FALSE]
    ELSE IF reqs[request_id].status # "pending"
    THEN [requests |-> reqs, ret |-> FALSE]
    ELSE [requests |-> [reqs EXCEPT ![request_id].status = "approved"], ret |-> TRUE]

\* HumanApprovalManager.reject
reject(reqs, request_id) ==
    IF request_id \notin DOMAIN reqs
    THEN [requests |-> reqs, ret |-> FALSE]
    ELSE IF reqs[request_id].status # "pending"
    THEN [requests |-> reqs, ret |-> FALSE]
    ELSE [requests |-> [reqs EXCEPT ![request_id].status = "rejected"], ret |-> TRUE]

\* HumanApprovalManager.check_approval: the requests after the call and the
\* status returned
check_approval(reqs, request_id, clock) ==
    IF request_id \notin DOMAIN reqs
    THEN [requests |-> reqs, ret |-> None]
    ELSE LET request == reqs[request_id]
             due == /\ request.status = "pending"
                    /\ request.auto_approve_after # <<>>
                    /\ clock >= request.auto_approve_after[1]
             after == IF due THEN [reqs EXCEPT ![request_id].status = "auto_approved"]
                      ELSE reqs
         IN  [requests |-> after, ret |-> after[request_id].status]

\* HumanApprovalManager.is_approved
is_approved(reqs, request_id, clock) ==
    LET checked == check_approval(reqs, request_id, clock)
    IN  [requests |-> checked.requests,
         ret |-> checked.ret \in {"approved", "auto_approved"}]

\* HumanApprovalManager.request_approval; a registered callback answers TRUE
\* or FALSE
request_approval(milestone_type) ==
    IF milestone_type \in auto_approved_milestones
    THEN Append(requests, ApprovalRequest("auto_approved", <<>>))
    ELSE LET request ==
                 ApprovalRequest("pending",
                                 IF approval_config.auto_approve_enabled
                                 THEN <<approval_now + approval_config.auto_approve_timeout>>
                                 ELSE <<>>)
             stored == Append(requests, request)
         IN  IF milestone_type \in DOMAIN approval_callbacks /\ approval_callbacks[milestone_type]
             THEN approve(stored, Len(stored)).requests
             ELSE stored

call_register_auto_approve ==
    /\ \E milestone_type \in {"mission_plan"} :
        auto_approved_milestones' = auto_approved_milestones \cup {milestone_type}
    /\ approval_call' = ApprovalCall("register_auto_approve", 0)
    /\ approval_ret' = None
    /\ UNCHANGED <<approval_config, requests, approval_callbacks, approval_now>>

call_register_callback ==
    /\ \E result \in BOOLEAN :
        approval_callbacks' =
            [m \in DOMAIN approval_callbacks \cup {"mission_plan"} |->
                IF m = "mission_plan" THEN result ELSE approval_callbacks[m]]
    /\ approval_call' = ApprovalCall("register_callback", 0)
    /\ approval_ret' = None
    /\ UNCHANGED <<approval_config, requests, auto_approved_milestones, approval_now>>

call_request_approval ==
    /\ Len(requests) < MaxRequests
    /\ \E milestone_type \in MilestoneType :
        requests' = request_approval(milestone_type)
    /\ approval_call' = ApprovalCall("request_approval", Len(requests) + 1)
    /\ approval_ret' = None
    /\ UNCHANGED <<approval_config, approval_callbacks, auto_approved_milestones, approval_now>>

call_approve ==
    /\ \E request_id \in RequestIds :
        /\ requests' = approve(requests, request_id).requests
        /\ approval_ret' = approve(requests, request_id).ret
        /\ approval_call' = ApprovalCall("approve", request_id)
    /\ UNCHANGED <<approval_config, approval_callbacks, auto_approved_milestones, approval_now>>

call_reject ==
    /\ \E request_id \in RequestIds :
        /\ requests' = reject(requests, request_id).requests
        /\ approval_ret' = reject(requests, request_id).ret
        /\ approval_call' = ApprovalCall("reject", request_id)
    /\ UNCHANGED <<approval_config, approval_callbacks, auto_approved_milestones, approval_now>>

call_check_approval ==
    /\ \E request_id \in RequestIds :
        /\ requests' = check_approval(requests, request_id, approval_now).requests
        /\ approval_ret' = check_approval(requests, request_id, approval_now).ret
        /\ approval_call' = ApprovalCall("check_approval", request_id)
    /\ UNCHANGED <<approval_config, approval_callbacks, auto_approved_milestones, approval_now>>

call_is_approved ==
    /\ \E request_id \in RequestIds :
        /\ requests' = is_approved(requests, request_id, approval_now).requests
        /\ approval_ret' = is_approved(requests, request_id, approval_now).ret
        /\ approval_call' = ApprovalCall("is_approved", request_id)
    /\ UNCHANGED <<approval_config, approval_callbacks, auto_approved_milestones, approval_now>>

\* a second passes
approval_tick ==
    /\ approval_now < MaxApprovalTime
    /\ approval_now' = approval_now + 1
    /\ UNCHANGED <<approval_config, requests, approval_callbacks, auto_approved_milestones,
                   approval_call, approval_ret>>

----------------------------------------------------------------------------
(* PermissionManager and ToolRegistry (src/core/tools.py) *)

\* the members of ToolPermission the default tools ask for
ToolPermission == {"read", "write", "execute"}

\* ToolResultStatus
ToolResultStatus == {"success", "failure", "permission_denied", "timeout", "rolled_back"}

\* ToolRegistry._initialize_default_tools: tool id -> required_permissions
RegisteredTools ==
    [tool_id \in {"code_runner", "file_io"} |->
        IF tool_id = "code_runner" THEN {"execute"} ELSE {"read", "write"}]

\* the agents that call the registry
ToolAgents == {"agent_1", "agent_2"}

\* the agents that are granted anything
GrantedAgents == {"agent_1"}

\* an empty dictionary
EmptyDict == [x \in {} |-> {}]

\* the tool ids a caller names: the registered ones and one that is not
ToolIds == DOMAIN RegisteredTools \cup {"tool_1"}

\* the permission lists a caller grants or asks for
PermissionLists == {{"read"}, {"execute"}, {"read", "write"}}

\* the expires_at arguments: left out (<<>>) or a time
ExpiryArgs == {<<>>} \cup {<<t>> : t \in 1..MaxToolTime}

\* ToolPermissionSet: tool_permissions and expires_at (<<>> is None)
ToolPermissionSet(tool_permissions, expires_at) ==
    [tool_permissions |-> tool_permissions, expires_at |-> expires_at]

\* the dictionary d without key k
dict_del(d, k) == [x \in DOMAIN d \ {k} |-> d[x]]

\* the dictionary d with d[k] = v
dict_set(d, k, v) == [x \in DOMAIN d \cup {k} |-> IF x = k THEN v ELSE d[x]]

\* PermissionManager.grant_permissions
grant_permissions(perms, agent_id, tool_id, permission_list, expires_at) ==
    LET current == IF agent_id \in DOMAIN perms THEN perms[agent_id]
                   ELSE ToolPermissionSet(EmptyDict, <<>>)
    IN  dict_set(perms, agent_id,
            ToolPermissionSet(dict_set(current.tool_permissions, tool_id, permission_list),
                              IF expires_at # <<>> THEN expires_at ELSE current.expires_at))

\* PermissionManager.revoke_permissions; tool_id is <<>> when left out
revoke_permissions(perms, agent_id, tool_id) ==
    IF agent_id \notin DOMAIN perms THEN perms
    ELSE IF tool_id # <<>>
         THEN [perms EXCEPT ![agent_id].tool_permissions = dict_del(@, tool_id[1])]
         ELSE dict_del(perms, agent_id)

\* PermissionManager.check_permissions: (has_all, granted)
check_permissions(perms, agent_id, tool_id, required_permissions, clock) ==
    IF agent_id \notin DOMAIN perms THEN <<FALSE, {}>>
    ELSE IF perms[agent_id].expires_at # <<>> /\ clock > perms[agent_id].expires_at[1]
         THEN <<FALSE, {}>>
    ELSE IF tool_id \notin DOMAIN perms[agent_id].tool_permissions THEN <<FALSE, {}>>
    ELSE LET granted == perms[agent_id].tool_permissions[tool_id]
         IN  <<required_permissions \subseteq granted, granted>>

\* what BaseTool.execute of a default tool can answer once the registry calls it:
\* its status and whether it wrote its audit log (a parameter validation
\* failure returns before audit_execution)
ToolOutcomes ==
    {[status |-> "success", audited |-> TRUE],
     [status |-> "failure", audited |-> TRUE],
     [status |-> "failure", audited |-> FALSE]}

\* the last call of the registry or its permission manager
ToolCall(op, agent_id, tool_id, permission_list) ==
    [op |-> op, agent_id |-> agent_id, tool_id |-> tool_id, permissions |-> permission_list]

\* what a call answered: the status or truth value, and whether the tool's execute ran
ToolRet(value, invoked) == [value |-> value, invoked |-> invoked]

\* no grant stands for an agent and a tool
NoGrant == [permissions |-> {}, expires_at |-> <<>>, standing |-> FALSE]

\* ToolRegistry.__init__
ToolRegistry_init ==
    /\ permissions = EmptyDict
    /\ audit_log = [tool_id \in DOMAIN RegisteredTools |-> 0]
    /\ last_grant = [pair \in GrantedAgents \X DOMAIN RegisteredTools |-> NoGrant]
    /\ tool_call = ToolCall("none", "agent_1", "tool_1", {})
    /\ tool_ret = ToolRet(None, FALSE)
    /\ tool_now = 0

\* ToolRegistry.grant_tool_access
call_grant_tool_access ==
    \E agent_id \in GrantedAgents, tool_id \in DOMAIN RegisteredTools,
       permission_list \in PermissionLists, expires_at \in ExpiryArgs :
        /\ permissions' = grant_permissions(permissions, agent_id, tool_id, permission_list,
                                            expires_at)
        /\ last_grant' = [last_grant EXCEPT ![<<agent_id, tool_id>>] =
                            [permissions |-> permission_list, expires_at |-> expires_at,
                             standing |-> TRUE]]
        /\ tool_call' = ToolCall("grant_permissions", agent_id, tool_id, permission_list)
        /\ tool_ret' = ToolRet(None, FALSE)
        /\ UNCHANGED <<audit_log, tool_now>>

\* ToolRegistry.revoke_tool_access
call_revoke_tool_access ==
    \E agent_id \in GrantedAgents, tool_id \in {<<>>} \cup {<<t>> : t \in DOMAIN RegisteredTools} :
        /\ permissions' = revoke_permissions(permissions, agent_id, tool_id)
        /\ last_grant' = [pair \in DOMAIN last_grant |->
                            IF pair[1] = agent_id /\ (tool_id = <<>> \/ tool_id = <<pair[2]>>)
                            THEN NoGrant ELSE last_grant[pair]]
        /\ tool_call' = ToolCall("revoke_permissions", agent_id,
                                 IF tool_id = <<>> THEN None ELSE tool_id[1], {})
        /\ tool_ret' = ToolRet(None, FALSE)
        /\ UNCHANGED <<audit_log, tool_now>>

\* PermissionManager.check_permissions, called directly
call_check_permissions ==
    \E agent_id \in ToolAgents, tool_id \in ToolIds, required \in PermissionLists :
        /\ tool_ret' = ToolRet(check_permissions(permissions, agent_id, tool_id, required,
                                                 tool_now)[1], FALSE)
        /\ tool_call' = ToolCall("check_permissions", agent_id, tool_id, required)
        /\ UNCHANGED <<permissions, audit_log, last_grant, tool_now>>

\* ToolRegistry.execute_tool
execute_tool(agent_id, tool_id) ==
    IF tool_id \notin DOMAIN RegisteredTools
    THEN /\ tool_ret' = ToolRet("failure", FALSE)
         /\ UNCHANGED audit_log
    ELSE IF ~check_permissions(permissions, agent_id, tool_id, RegisteredTools[tool_id],
                               tool_now)[1]
    THEN /\ tool_ret' = ToolRet("permission_denied", FALSE)
         /\ UNCHANGED audit_log
    ELSE \E outcome \in ToolOutcomes :
            /\ tool_ret' = ToolRet(outcome.status, TRUE)
            /\ audit_log' = [audit_log EXCEPT ![tool_id] =
                                IF outcome.audited THEN @ + 1 ELSE @]

\* a caller runs a tool through the registry
call_execute_tool ==
    \E agent_id \in ToolAgents, tool_id \in ToolIds :
        /\ audit_log["code_runner"] + audit_log["file_io"] < MaxAudit
        /\ execute_tool(agent_id, tool_id)
        /\ tool_call' = ToolCall("execute_tool", agent_id, tool_id, {})
        /\ UNCHANGED <<permissions, last_grant, tool_now>>

\* a second passes
tool_tick ==
    /\ tool_now < MaxToolTime + 1
    /\ tool_now' = tool_now + 1
    /\ UNCHANGED <<permissions, audit_log, last_grant, tool_call, tool_ret>>

----------------------------------------------------------------------------
(* FileIOTool (src/core/tools.py), on one allowed path *)

\* what the file can hold; None stands for a path that does not exist
FileContents == {"", "a", "b"}

\* a ToolExecution of the file tool: rollback_data's operation, the status,
\* rollback_available, and the content the path had when the call was made
FileExecution(operation, status, rollback_available, before) ==
    [operation |-> operation, status |-> status, rollback_available |-> rollback_available,
     before |-> before]

\* the last call of the file tool: operation and its argument
FileCall(op, arg) == [op |-> op, arg |-> arg]

\* FileIOTool.__init__, and the path as the caller finds it
FileIOTool_init ==
    /\ backups = None
    /\ file_executions = <<>>
    /\ file_call = FileCall("none", None)
    /\ file_ret = None

\* FileIOTool._write_file: the new file and the new backup
write_file(file, backup, content) ==
    [file |-> content, backup |-> IF file # None THEN file ELSE backup]

\* FileIOTool._delete_file: the new file and the new backup
delete_file(file, backup) ==
    [file |-> None, backup |-> IF file # None THEN file ELSE backup]

\* FileIOTool.rollback: the new file and the answer
rollback(file, backup, execution) ==
    IF ~execution.rollback_available THEN [file |-> file, ret |-> FALSE]
    ELSE IF execution.operation = "write"
    THEN IF backup # None
         THEN [file |-> IF backup # "" THEN backup ELSE None, ret |-> TRUE]
         ELSE [file |-> file, ret |-> FALSE]
    ELSE IF execution.operation = "delete"
    THEN IF backup # None
         THEN [file |-> backup, ret |-> TRUE]
         ELSE [file |-> file, ret |-> FALSE]
    ELSE [file |-> file, ret |-> FALSE]

\* FileIOTool.execute with operation "write"
call_file_write ==
    \E content \in {"a", "b"} :
        /\ Len(file_executions) < MaxFileOps
        /\ LET done == write_file(file_content, backups, content)
           IN  /\ file_content' = done.file
               /\ backups' = done.backup
        /\ file_executions' = Append(file_executions,
                                     FileExecution("write", "success", TRUE, file_content))
        /\ file_call' = FileCall("write", content)
        /\ file_ret' = "success"

\* FileIOTool.execute with operation "delete"
call_file_delete ==
    /\ Len(file_executions) < MaxFileOps
    /\ LET done == delete_file(file_content, backups)
       IN  /\ file_content' = done.file
           /\ backups' = done.backup
    /\ file_executions' = Append(file_executions,
                                 FileExecution("delete", "success", TRUE, file_content))
    /\ file_call' = FileCall("delete", None)
    /\ file_ret' = "success"

\* FileIOTool.execute with operation "read"
call_file_read ==
    /\ Len(file_executions) < MaxFileOps
    /\ file_executions' = Append(file_executions,
                                 FileExecution("read",
                                               IF file_content # None THEN "success" ELSE "failure",
                                               FALSE, file_content))
    /\ file_call' = FileCall("read", None)
    /\ file_ret' = IF file_content # None THEN "success" ELSE "failure"
    /\ UNCHANGED <<file_content, backups>>

\* FileIOTool.rollback of one of the executions made so far
call_file_rollback ==
    \E i \in 1..Len(file_executions) :
        /\ LET done == rollback(file_content, backups, file_executions[i])
           IN  /\ file_content' = done.file
               /\ file_ret' = done.ret
        /\ file_call' = FileCall("rollback", i)
        /\ UNCHANGED <<backups, file_executions>>

----------------------------------------------------------------------------
(* Several callers of OrchestratorIntelligence.assign_credit at once.      *)
(* The code takes no lock, so the calls interleave between the statements  *)
(* of assign_credit and update_from_credits (src/core/orchestrator.py).    *)

\* the callers
Writers == {1, 2}

\* the iteration state of update_from_credits in one caller: the size of
\* agent_credits when the key iterator was made, the keys visited, the key
\* at hand and the figures read for it
WriterIter(seen, pos, key, success_rate, quality) ==
    [seen |-> seen, pos |-> pos, key |-> key, success_rate |-> success_rate,
     quality |-> quality]

\* no caller has started; each is about to record one outcome of its own task
Writers_init ==
    /\ writer_pc = [w \in Writers |-> "start"]
    /\ writer_credit \in [Writers -> AgentIds \X BOOLEAN \X QualityLevels]
    /\ writer_iter = [w \in Writers |-> WriterIter(0, 0, None, 0, 0)]
    /\ key_order = <<>>

\* the credit a caller records
credit_of(w) ==
    AgentCredit(writer_credit[w][1], w, writer_credit[w][2], writer_credit[w][3])

\* CreditAssignment.assign_credit: self.credits.append(credit)
writer_append_credits(w) ==
    /\ writer_pc[w] = "start"
    /\ credits' = Append(credits, credit_of(w))
    /\ writer_pc' = [writer_pc EXCEPT ![w] = "credits_appended"]
    /\ UNCHANGED <<agent_credits, adaptation_weights, writer_iter, key_order, writer_credit>>

\* CreditAssignment.assign_credit: self.agent_credits[agent_id].append(credit)
writer_append_agent_credits(w) ==
    /\ writer_pc[w] = "credits_appended"
    /\ LET a == credit_of(w).agent_id
       IN  /\ agent_credits' =
                [k \in DOMAIN agent_credits \cup {a} |->
                    IF k = a THEN Append(credits_get(agent_credits, a), credit_of(w))
                    ELSE agent_credits[k]]
           /\ key_order' = IF a \in DOMAIN agent_credits THEN key_order
                           ELSE Append(key_order, a)
    /\ writer_pc' = [writer_pc EXCEPT ![w] = "assigned"]
    /\ UNCHANGED <<credits, adaptation_weights, writer_iter, writer_credit>>

\* update_from_credits: the for statement makes the iterator over keys()
writer_iter_start(w) ==
    /\ writer_pc[w] = "assigned"
    /\ writer_iter' = [writer_iter EXCEPT ![w] = WriterIter(Len(key_order), 0, None, 0, 0)]
    /\ writer_pc' = [writer_pc EXCEPT ![w] = "iterating"]
    /\ UNCHANGED <<credits, agent_credits, adaptation_weights, key_order, writer_credit>>

\* update_from_credits: the iterator's next; a dictionary that changed size
\* since the iterator was made raises RuntimeError
writer_iter_next(w) ==
    /\ writer_pc[w] = "iterating"
    /\ IF Len(key_order) # writer_iter[w].seen
       THEN /\ writer_pc' = [writer_pc EXCEPT ![w] = "raised"]
            /\ UNCHANGED writer_iter
       ELSE IF writer_iter[w].pos < writer_iter[w].seen
       THEN /\ writer_iter' = [writer_iter EXCEPT
                                  ![w].pos = @ + 1,
                                  ![w].key = key_order[writer_iter[w].pos + 1]]
            /\ writer_pc' = [writer_pc EXCEPT ![w] = "at_key"]
       ELSE /\ writer_pc' = [writer_pc EXCEPT ![w] = "returned"]
            /\ UNCHANGED writer_iter
    /\ UNCHANGED <<credits, agent_credits, adaptation_weights, key_order, writer_credit>>

\* update_from_credits: success_rate = get_agent_success_rate(agent_id)
writer_read_success_rate(w) ==
    /\ writer_pc[w] = "at_key"
    /\ writer_iter' = [writer_iter EXCEPT
                          ![w].success_rate = success_rate_of(agent_credits, writer_iter[w].key)]
    /\ writer_pc' = [writer_pc EXCEPT ![w] = "rate_read"]
    /\ UNCHANGED <<credits, agent_credits, adaptation_weights, key_order, writer_credit>>

\* update_from_credits: quality = get_agent_average_quality(agent_id)
writer_read_quality(w) ==
    /\ writer_pc[w] = "rate_read"
    /\ writer_iter' = [writer_iter EXCEPT
                          ![w].quality = average_quality_of(agent_credits, writer_iter[w].key)]
    /\ writer_pc' = [writer_pc EXCEPT ![w] = "quality_read"]
    /\ UNCHANGED <<credits, agent_credits, adaptation_weights, key_order, writer_credit>>

\* update_from_credits: self.adaptation_weights[agent_id] = ...
writer_store_weight(w) ==
    /\ writer_pc[w] = "quality_read"
    /\ adaptation_weights' =
          [k \in DOMAIN adaptation_weights \cup {writer_iter[w].key} |->
              IF k = writer_iter[w].key
              THEN combined_score(writer_iter[w].success_rate, writer_iter[w].quality)
              ELSE adaptation_weights[k]]
    /\ writer_pc' = [writer_pc EXCEPT ![w] = "iterating"]
    /\ UNCHANGED <<credits, agent_credits, writer_iter, key_order, writer_credit>>

(***************************************************************************)
(* SoftwareFactory.execute_with_automation: the review and improvement     *)
(* loop around ExecutionFlow.execute_mission.  A mission result is its     *)
(* status and the average score of its execution summary, 0 when the       *)
(* result carries no summary.  An exception leaving the call is the        *)
(* returned value Raised.                                                  *)
(***************************************************************************)
AutomationLevel == {"full_automation", "semi_automated", "manual"}
QualityThreshold == 70
HumanReviewScore == 60
TargetScore == 80
DefaultMaxIterations == 3

\* what execute_mission(goal, max_iterations=1) returns: a failed outcome
\* without a summary, or a completed one with the average of its scores
MissionResult(status, average_score) == [status |-> status, average_score |-> average_score]
MissionResults ==
    {MissionResult("failed", 0)}
        \cup {MissionResult("completed", s) : s \in {0, 50, 65, 75, 90}}

Raised(error) == [status |-> "raised", error |-> error]
NoReturn == [status |-> "none"]

SoftwareFactory_init ==
    /\ automation_level \in AutomationLevel
    /\ improvement_max_iterations \in 0..DefaultMaxIterations
    /\ auto_pc = "idle"
    /\ auto_iteration = 0
    /\ auto_best_result = <<>>
    /\ auto_best_score = 0
    /\ auto_review = <<>>
    /\ improvement_history = <<>>
    /\ mission_runs = 0
    /\ auto_ret = NoReturn

\* AutomatedReviewer.review_mission_result
review_mission_result(result) ==
    [passed |-> result.status = "completed" /\ result.average_score >= QualityThreshold,
     score |-> result.average_score,
     requires_human_review |->
        result.status = "failed" \/ result.average_score < HumanReviewScore]

\* ImprovementAutomation.should_improve
should_improve(current_score, at_iteration) ==
    IF at_iteration >= improvement_max_iterations THEN FALSE
    ELSE IF current_score >= TargetScore THEN FALSE
    ELSE TRUE

\* execute_with_automation up to the loop
execute_with_automation ==
    /\ auto_pc = "idle"
    /\ auto_pc' = "loop"
    /\ UNCHANGED <<automation_level, improvement_max_iterations, auto_iteration,
                   auto_best_result, auto_best_score, auto_review, improvement_history,
                   mission_runs, auto_ret>>

\* one pass of the loop: a mission execution, its review, and the return or
\* the improvement that follows
automation_iteration ==
    /\ auto_pc = "loop"
    /\ auto_iteration < improvement_max_iterations
    /\ \E result \in MissionResults :
        LET review == review_mission_result(result)
            current_score == result.average_score
            better == current_score > auto_best_score
            best_result == IF better THEN <<result>> ELSE auto_best_result
        IN  /\ mission_runs' = mission_runs + 1
            /\ auto_review' = <<review>>
            /\ auto_best_result' = best_result
            /\ auto_best_score' = IF better THEN current_score ELSE auto_best_score
            /\ IF review.requires_human_review /\ automation_level # "full_automation"
               THEN /\ auto_ret' = IF best_result = <<>> THEN Raised("TypeError")
                                   ELSE [status |-> "requires_human_review"]
                    /\ auto_pc' = "returned"
                    /\ UNCHANGED <<auto_iteration, improvement_history>>
               ELSE IF review.passed \/ ~should_improve(current_score, auto_iteration)
               THEN /\ auto_ret' = IF best_result = <<>> THEN Raised("TypeError")
                                   ELSE [status |-> best_result[1].status]
                    /\ auto_pc' = "returned"
                    /\ UNCHANGED <<auto_iteration, improvement_history>>
               ELSE /\ improvement_history' =
                          Append(improvement_history,
                                 [iteration |-> auto_iteration + 1, score |-> current_score])
                    /\ auto_iteration' = auto_iteration + 1
                    /\ UNCHANGED <<auto_pc, auto_ret>>
    /\ UNCHANGED <<automation_level, improvement_max_iterations>>

\* the code after the loop
automation_exhausted ==
    /\ auto_pc = "loop"
    /\ auto_iteration >= improvement_max_iterations
    /\ auto_ret' = IF auto_review = <<>> THEN Raised("UnboundLocalError")
                   ELSE IF auto_best_result # <<>>
                   THEN [status |-> auto_best_result[1].status]
                   ELSE [status |-> "failed"]
    /\ auto_pc' = "returned"
    /\ UNCHANGED <<automation_level, improvement_max_iterations, auto_iteration,
                   auto_best_result, auto_best_score, auto_review, improvement_history,
                   mission_runs>>

----------------------------------------------------------------------------
(* ShortTermMemory and MemorySystem.record_mission_completion              *)
(* (src/core/memory.py).  A dict is a function on the set of its keys.     *)
(* projects[m] is the tasks dict of the ProjectState of m.  One TaskState  *)
(* object can be held by a project and by active_tasks at once: an entry   *)
(* of active_tasks is the mission of its object and, in own, <<>> when the *)
(* object is the one the project of that mission holds under the same id,  *)
(* or <<task>> when no project holds it any more.  update_task_status,     *)
(* assign_agent_to_task and add_task_output take a task id only; mem_call  *)
(* also keeps the mission the caller is running, which the code never sees *)
(* (ExecutionFlow calls them for execution_context.mission_id).            *)

MemoryMissions == {"mission_1", "mission_2"}
\* DecomposerAgent._decompose_plan numbers the tasks of every mission from
\* task_1: the id two missions share
DecomposedTaskIds == {"task_1"}
StatusArgs == {"completed"}
AgentArgs == {"agent_1"}
MaxOutputs == 1

TaskState(mission_id, status, assigned_agent, outputs) ==
    [mission_id |-> mission_id, status |-> status,
     assigned_agent |-> assigned_agent, outputs |-> outputs]

MemCall(op, mission_id, task_id) ==
    [op |-> op, mission_id |-> mission_id, task_id |-> task_id]

ShortTermMemory_init ==
    /\ projects = <<>>
    /\ active_tasks = <<>>
    /\ project_outcomes = <<>>
    /\ mem_call = MemCall("none", None, None)
    /\ mem_ret = None

\* the dictionary d after del d[k] for every k of keys that it has
dict_del_all(d, keys) == [x \in DOMAIN d \ keys |-> d[x]]

\* whether the active_tasks entry of task_id is the object that the project
\* of mission_id holds under task_id
held_by_project(task_id, mission_id) ==
    /\ task_id \in DOMAIN active_tasks
    /\ active_tasks[task_id].mission_id = mission_id
    /\ active_tasks[task_id].own = <<>>

\* the object self.active_tasks[task_id]
active_task(task_id) ==
    IF active_tasks[task_id].own = <<>>
    THEN projects[active_tasks[task_id].mission_id][task_id]
    ELSE active_tasks[task_id].own[1]

\* the dicts after the object self.active_tasks[task_id] became task: the
\* object changes wherever it is held
store_active_task(task_id, task) ==
    IF active_tasks[task_id].own = <<>>
    THEN /\ projects' = [projects EXCEPT ![task.mission_id][task_id] = task]
         /\ UNCHANGED active_tasks
    ELSE /\ active_tasks' = [active_tasks EXCEPT ![task_id].own = <<task>>]
         /\ UNCHANGED projects

\* a new ProjectState replaces the one of the mission; the tasks the old one
\* held stay in active_tasks
create_project_state(mission_id) ==
    /\ projects' = dict_set(projects, mission_id, <<>>)
    /\ active_tasks' =
         [t \in DOMAIN active_tasks |->
            IF held_by_project(t, mission_id)
            THEN [active_tasks[t] EXCEPT !.own = <<projects[mission_id][t]>>]
            ELSE active_tasks[t]]

call_create_project_state ==
    \E mission_id \in MemoryMissions :
       /\ create_project_state(mission_id)
       /\ mem_call' = MemCall("create_project_state", mission_id, None)
       /\ mem_ret' = None
       /\ UNCHANGED project_outcomes

call_add_task ==
    \E mission_id \in MemoryMissions, task_id \in DecomposedTaskIds :
       /\ mem_call' = MemCall("add_task", mission_id, task_id)
       /\ IF mission_id \notin DOMAIN projects
          THEN /\ mem_ret' = "ValueError"
               /\ UNCHANGED <<projects, active_tasks>>
          ELSE /\ projects' =
                    [projects EXCEPT ![mission_id] =
                        dict_set(@, task_id, TaskState(mission_id, "pending", None, <<>>))]
               /\ active_tasks' =
                    dict_set(active_tasks, task_id, [mission_id |-> mission_id, own |-> <<>>])
               /\ mem_ret' = None
       /\ UNCHANGED project_outcomes

call_update_task_status ==
    \E mission_id \in MemoryMissions, task_id \in DecomposedTaskIds, status \in StatusArgs :
       /\ mem_call' = MemCall("update_task_status", mission_id, task_id)
       /\ IF task_id \in DOMAIN active_tasks
          THEN /\ store_active_task(task_id, [active_task(task_id) EXCEPT !.status = status])
               /\ mem_ret' = TRUE
          ELSE /\ mem_ret' = FALSE
               /\ UNCHANGED <<projects, active_tasks>>
       /\ UNCHANGED project_outcomes

call_assign_agent_to_task ==
    \E mission_id \in MemoryMissions, task_id \in DecomposedTaskIds, agent_id \in AgentArgs :
       /\ mem_call' = MemCall("assign_agent_to_task", mission_id, task_id)
       /\ IF task_id \in DOMAIN active_tasks
          THEN /\ store_active_task(task_id,
                     [active_task(task_id) EXCEPT !.assigned_agent = agent_id])
               /\ mem_ret' = TRUE
          ELSE /\ mem_ret' = FALSE
               /\ UNCHANGED <<projects, active_tasks>>
       /\ UNCHANGED project_outcomes

\* an output is appended while the task has fewer than MaxOutputs of them
call_add_task_output ==
    \E mission_id \in MemoryMissions, task_id \in DecomposedTaskIds :
       /\ task_id \in DOMAIN active_tasks => Len(active_task(task_id).outputs) < MaxOutputs
       /\ mem_call' = MemCall("add_task_output", mission_id, task_id)
       /\ IF task_id \in DOMAIN active_tasks
          THEN /\ store_active_task(task_id,
                     [active_task(task_id) EXCEPT !.outputs = Append(@, "output")])
               /\ mem_ret' = TRUE
          ELSE /\ mem_ret' = FALSE
               /\ UNCHANGED <<projects, active_tasks>>
       /\ UNCHANGED project_outcomes

\* the dicts and the returned value of clear_project(mission_id)
clear_project(mission_id) ==
    IF mission_id \in DOMAIN projects
    THEN /\ active_tasks' = dict_del_all(active_tasks, DOMAIN projects[mission_id])
         /\ projects' = dict_del(projects, mission_id)
         /\ mem_ret' = TRUE
    ELSE /\ mem_ret' = FALSE
         /\ UNCHANGED <<projects, active_tasks>>

call_clear_project ==
    \E mission_id \in MemoryMissions :
       /\ clear_project(mission_id)
       /\ mem_call' = MemCall("clear_project", mission_id, None)
       /\ UNCHANGED project_outcomes

\* the ProjectOutcome figures taken from a ProjectState
ProjectOutcome(tasks) ==
    [tasks_count |-> Cardinality(DOMAIN tasks),
     successful_tasks |-> Cardinality({t \in DOMAIN tasks : tasks[t].status = "completed"})]

\* record_mission_completion(mission_id, outcome, get_project_state(mission_id)),
\* as ExecutionFlow calls it: nothing happens when the state is None
call_record_mission_completion ==
    \E mission_id \in MemoryMissions :
       /\ mem_call' = MemCall("record_mission_completion", mission_id, None)
       /\ IF mission_id \in DOMAIN projects
          THEN /\ project_outcomes' =
                    dict_set(project_outcomes, mission_id, ProjectOutcome(projects[mission_id]))
               /\ clear_project(mission_id)
          ELSE /\ mem_ret' = None
               /\ UNCHANGED <<projects, active_tasks, project_outcomes>>

----------------------------------------------------------------------------
(* Scenario E: two candidates whose ledger figures are 0.9/0.8 and 0.7/0.6, *)
(* and further successful outcomes recorded for the second one.             *)

\* n copies of a record
RECURSIVE repeat(_, _)
repeat(record, n) == IF n = 0 THEN <<>> ELSE <<record>> \o repeat(record, n - 1)

\* the outcomes behind the scenario's figures, as <<agent, success, quality>>:
\* agent_1 has 9 successes in 10 at quality 0.8, agent_2 has 7 in 10 at 0.6
ScenarioHistory ==
    repeat(<<"agent_1", TRUE, 80>>, 9) \o <<<<"agent_1", FALSE, 80>>>> \o
    repeat(<<"agent_2", TRUE, 60>>, 7) \o repeat(<<"agent_2", FALSE, 60>>, 3)

\* the quality of the further successful outcomes of agent_2
FeedQuality == {90, 100}

\* OrchestratorIntelligence.assign_credit for the next outcome of the history
scenario_record_history ==
    /\ Len(credits) < Len(ScenarioHistory)
    /\ LET next == ScenarioHistory[Len(credits) + 1]
       IN  facade_assign_credit(next[1], 1, next[2], next[3])
    /\ UNCHANGED <<ledger_call, ledger_ret, ledger_calls, peVars>>

\* OrchestratorIntelligence.assign_credit for one more success of agent_2
scenario_feed ==
    /\ Len(credits) >= Len(ScenarioHistory)
    /\ Len(credits) < Len(ScenarioHistory) + MaxFeed
    /\ \E quality_score \in FeedQuality :
        facade_assign_credit("agent_2", 1, TRUE, quality_score)
    /\ UNCHANGED <<ledger_call, ledger_ret, ledger_calls, peVars>>

\* ExecutionFlow._controller_select_agent
scenario_select ==
    /\ Len(credits) >= Len(ScenarioHistory)
    /\ pe_ret' = controller_select_agent
    /\ pe_call' = PeCall("controller_select_agent", <<>>, 0, policy.agent_selection_strategy)
    /\ UNCHANGED <<candidate_agents, round_robin_index, select_calls, ledgerVars>>

----------------------------------------------------------------------------
(* Specifications *)

\* the flow, constructed and never started
FlowIdle == flow_tasks = <<>> /\ ExecutionFlow_init

\* an approval manager with the default constructor arguments, not called
ApprovalIdle == HumanApprovalManager_init /\ ~approval_config.auto_approve_enabled

\* a tool registry nobody has called, and a file tool with an empty workspace
ToolsIdle == ToolRegistry_init /\ FileIOTool_init /\ file_content = None

\* nobody calls the facade's assign_credit from a second thread
WritersIdle ==
    /\ Writers_init
    /\ writer_credit = [w \in Writers |-> <<"agent_1", FALSE, 50>>]

\* a MemorySystem nobody has called
MemoryIdle == ShortTermMemory_init

\* a factory with the default constructor arguments, not called
AutomationIdle ==
    /\ SoftwareFactory_init
    /\ automation_level = "semi_automated"
    /\ improvement_max_iterations = DefaultMaxIterations

\* what the operations of each specification leave alone besides the
\* variables they name themselves
frameTools == <<smVars, orchVars, flowVars, priVars, peVars, ledgerVars, stopVars,
               approvalVars, fileVars, writerVars, autoVars, memVars>>
frameFileIO == <<smVars, orchVars, flowVars, priVars, peVars, ledgerVars, stopVars,
                approvalVars, toolVars, writerVars, autoVars, memVars>>
frameFacade == <<flowVars, priVars, peVars, ledgerVars, stopVars, approvalVars, toolVars, fileVars, writerVars, autoVars, memVars>>
frameFlow == <<priVars, peVars, stopVars, approvalVars, toolVars, fileVars, writerVars, autoVars, memVars>>
frameApproval == <<smVars, orchVars, flowVars, priVars, peVars, ledgerVars, stopVars, toolVars, fileVars, writerVars, autoVars, memVars>>
frameStop == <<smVars, orchVars, flowVars, priVars, peVars, ledgerVars, approvalVars, toolVars, fileVars, writerVars, autoVars, memVars>>
framePri == <<smVars, orchVars, flowVars, peVars, ledgerVars, stopVars, approvalVars, toolVars, fileVars, writerVars, autoVars, memVars>>
framePolicy == <<smVars, orchVars, flowVars, priVars, ledgerVars, stopVars, approvalVars, toolVars, fileVars, writerVars, autoVars, memVars>>
frameLedger == <<smVars, orchVars, flowVars, priVars, peVars, stopVars, approvalVars, toolVars, fileVars, writerVars, autoVars, memVars>>

InitSM ==
    /\ OrchestratorIntelligence_init
    /\ policy.agent_selection_strategy = "performance_based"
    /\ policy.adaptive_learning_enabled
    /\ policy.retry_enabled
    /\ policy.max_retries_per_task = MaxRetries
    /\ FlowIdle
    /\ PolicyEngine_prioritize_init
    /\ PolicyEngine_calls_init
    /\ CreditAssignment_init
    /\ StoppingConditionManager_init
    /\ ApprovalIdle
    /\ ToolsIdle
    /\ WritersIdle
    /\ AutomationIdle
    /\ MemoryIdle
NextSM == CallTransition /\ UNCHANGED frameFacade
SpecSM == InitSM /\ [][NextSM]_vars

InitOrch ==
    /\ OrchestratorIntelligence_init
    /\ policy.agent_selection_strategy = "performance_based"
    /\ policy.adaptive_learning_enabled
    /\ FlowIdle
    /\ PolicyEngine_prioritize_init
    /\ PolicyEngine_calls_init
    /\ CreditAssignment_init
    /\ StoppingConditionManager_init
    /\ ApprovalIdle
    /\ ToolsIdle
    /\ WritersIdle
    /\ AutomationIdle
    /\ MemoryIdle
NextOrch ==
    \/ start_mission /\ UNCHANGED frameFacade
    \/ decompose_mission /\ UNCHANGED frameFacade
    \/ assign_tasks /\ UNCHANGED frameFacade
    \/ execute_task /\ UNCHANGED frameFacade
    \/ monitor_execution /\ UNCHANGED frameFacade
SpecOrch == InitOrch /\ [][NextOrch]_vars

\* ExecutionFlow.execute_mission, one call, under a policy of no retry and under
\* one of MaxRetries retries (the flow never reads the figure)
InitFlow ==
    /\ OrchestratorIntelligence_init
    /\ policy.agent_selection_strategy = "performance_based"
    /\ policy.adaptive_learning_enabled
    /\ policy.retry_enabled
    /\ policy.max_retries_per_task \in {0, MaxRetries}
    /\ flow_tasks \in FlowTaskLists
    /\ ExecutionFlow_init
    /\ PolicyEngine_prioritize_init
    /\ PolicyEngine_calls_init
    /\ CreditAssignment_init
    /\ StoppingConditionManager_init
    /\ ApprovalIdle
    /\ ToolsIdle
    /\ WritersIdle
    /\ AutomationIdle
    /\ MemoryIdle
NextFlow ==
    \/ execute_mission /\ UNCHANGED frameFlow
    \/ phase_planning /\ UNCHANGED frameFlow
    \/ phase_decomposition /\ UNCHANGED frameFlow
    \/ execute_next_task /\ UNCHANGED frameFlow
    \/ finish_iteration /\ UNCHANGED frameFlow
SpecFlow == InitFlow /\ [][NextFlow]_vars

\* Scenario A: execute_mission on three tasks, each depending on the one before
ScenarioATasks ==
    [i \in 1..3 |-> [task_id |-> i, dependencies |-> task_dependencies("chain", i, 3)]]
InitScenarioA ==
    /\ OrchestratorIntelligence_init
    /\ policy.agent_selection_strategy = "performance_based"
    /\ policy.adaptive_learning_enabled
    /\ policy.retry_enabled
    /\ policy.max_retries_per_task = MaxRetries
    /\ flow_tasks = ScenarioATasks
    /\ ExecutionFlow_init
    /\ PolicyEngine_prioritize_init
    /\ PolicyEngine_calls_init
    /\ CreditAssignment_init
    /\ StoppingConditionManager_init
    /\ ApprovalIdle
    /\ ToolsIdle
    /\ WritersIdle
    /\ AutomationIdle
    /\ MemoryIdle
NextScenarioA ==
    \/ execute_mission /\ UNCHANGED frameFlow
    \/ phase_planning /\ UNCHANGED frameFlow
    \/ phase_decomposition /\ UNCHANGED frameFlow
    \/ scenario_a_task /\ UNCHANGED frameFlow
    \/ finish_iteration /\ UNCHANGED frameFlow
SpecScenarioA == InitScenarioA /\ [][NextScenarioA]_vars

\* PolicyEngine.prioritize_tasks, one call on any task list and dependency map
InitPri ==
    /\ OrchestratorIntelligence_init
    /\ policy.agent_selection_strategy = "performance_based"
    /\ policy.adaptive_learning_enabled
    /\ policy.retry_enabled
    /\ policy.max_retries_per_task = MaxRetries
    /\ FlowIdle
    /\ PolicyEngine_prioritize_init
    /\ PolicyEngine_calls_init
    /\ CreditAssignment_init
    /\ StoppingConditionManager_init
    /\ ApprovalIdle
    /\ ToolsIdle
    /\ WritersIdle
    /\ AutomationIdle
    /\ MemoryIdle
NextPri ==
    \/ prioritize_tasks /\ UNCHANGED framePri
    \/ prioritize_pass /\ UNCHANGED framePri
    \/ prioritize_return /\ UNCHANGED framePri
SpecPri == InitPri /\ [][NextPri]_vars

\* a PolicyEngine called by its owner: select_agent on one candidate list
\* under each selection strategy, and get_retry_delay
InitPolicy ==
    /\ OrchestratorIntelligence_init
    /\ StoppingConditionManager_init
    /\ ApprovalIdle
    /\ ToolsIdle
    /\ WritersIdle
    /\ AutomationIdle
    /\ MemoryIdle
    /\ policy.adaptive_learning_enabled
    /\ CreditAssignment_init
    /\ policy.retry_enabled
    /\ policy.max_retries_per_task = MaxRetries
    /\ FlowIdle
    /\ PolicyEngine_prioritize_init
    /\ candidate_agents \in CandidateLists
    /\ pe_call = PeCall("none", <<>>, 0, "none")
    /\ pe_ret = None
    /\ round_robin_index = 0
    /\ select_calls = 0
NextPolicy ==
    \/ call_select_agent /\ UNCHANGED framePolicy
    \/ call_get_retry_delay /\ UNCHANGED framePolicy
SpecPolicy == InitPolicy /\ [][NextPolicy]_vars

\* the ledger and the adaptive orchestrator called through the facade, with
\* adaptive learning enabled or disabled
InitLedger ==
    /\ OrchestratorIntelligence_init
    /\ policy.agent_selection_strategy = "performance_based"
    /\ policy.retry_enabled
    /\ policy.max_retries_per_task = MaxRetries
    /\ FlowIdle
    /\ PolicyEngine_prioritize_init
    /\ PolicyEngine_calls_init
    /\ CreditAssignment_init
    /\ StoppingConditionManager_init
    /\ ApprovalIdle
    /\ ToolsIdle
    /\ WritersIdle
    /\ AutomationIdle
    /\ MemoryIdle
NextLedger ==
    \/ call_assign_credit /\ UNCHANGED frameLedger
    \/ call_ledger_query /\ UNCHANGED frameLedger
    \/ call_adapt_agent_selection /\ UNCHANGED frameLedger
    \/ call_adapt_task_prioritization /\ UNCHANGED frameLedger
SpecLedger == InitLedger /\ [][NextLedger]_vars

\* a StoppingConditionManager as its owner calls it
InitStop ==
    /\ OrchestratorIntelligence_init
    /\ policy.agent_selection_strategy = "performance_based"
    /\ policy.adaptive_learning_enabled
    /\ policy.retry_enabled
    /\ policy.max_retries_per_task = MaxRetries
    /\ FlowIdle
    /\ PolicyEngine_prioritize_init
    /\ PolicyEngine_calls_init
    /\ CreditAssignment_init
    /\ StoppingConditionManager_init
    /\ ApprovalIdle
    /\ ToolsIdle
    /\ WritersIdle
    /\ AutomationIdle
    /\ MemoryIdle
NextStop ==
    \/ call_add_condition /\ UNCHANGED frameStop
    \/ call_check_conditions /\ UNCHANGED frameStop
    \/ call_reset /\ UNCHANGED frameStop
SpecStop == InitStop /\ [][NextStop]_vars

\* a HumanApprovalManager as its owner calls it
InitApproval ==
    /\ OrchestratorIntelligence_init
    /\ policy.agent_selection_strategy = "performance_based"
    /\ policy.adaptive_learning_enabled
    /\ policy.retry_enabled
    /\ policy.max_retries_per_task = MaxRetries
    /\ FlowIdle
    /\ PolicyEngine_prioritize_init
    /\ PolicyEngine_calls_init
    /\ CreditAssignment_init
    /\ StoppingConditionManager_init
    /\ HumanApprovalManager_init
    /\ ToolsIdle
    /\ WritersIdle
    /\ AutomationIdle
    /\ MemoryIdle
NextApproval ==
    \/ call_register_auto_approve /\ UNCHANGED frameApproval
    \/ call_register_callback /\ UNCHANGED frameApproval
    \/ call_request_approval /\ UNCHANGED frameApproval
    \/ call_approve /\ UNCHANGED frameApproval
    \/ call_reject /\ UNCHANGED frameApproval
    \/ call_check_approval /\ UNCHANGED frameApproval
    \/ call_is_approved /\ UNCHANGED frameApproval
    \/ approval_tick /\ UNCHANGED frameApproval
SpecApproval == InitApproval /\ [][NextApproval]_vars

\* every other component, constructed and not called
OthersIdle ==
    /\ OrchestratorIntelligence_init
    /\ policy.agent_selection_strategy = "performance_based"
    /\ policy.adaptive_learning_enabled
    /\ policy.retry_enabled
    /\ policy.max_retries_per_task = MaxRetries
    /\ FlowIdle
    /\ PolicyEngine_prioritize_init
    /\ PolicyEngine_calls_init
    /\ CreditAssignment_init
    /\ StoppingConditionManager_init
    /\ ApprovalIdle

\* a ToolRegistry and its PermissionManager as their callers use them
InitTools ==
    /\ OthersIdle
    /\ WritersIdle
    /\ AutomationIdle
    /\ MemoryIdle
    /\ ToolRegistry_init
    /\ FileIOTool_init
    /\ file_content = None
NextTools ==
    \/ call_grant_tool_access /\ UNCHANGED frameTools
    \/ call_revoke_tool_access /\ UNCHANGED frameTools
    \/ call_check_permissions /\ UNCHANGED frameTools
    \/ call_execute_tool /\ UNCHANGED frameTools
    \/ tool_tick /\ UNCHANGED frameTools
SpecTools == InitTools /\ [][NextTools]_vars

\* a FileIOTool working on one path, which may exist beforehand
InitFileIO ==
    /\ OthersIdle
    /\ WritersIdle
    /\ AutomationIdle
    /\ MemoryIdle
    /\ ToolRegistry_init
    /\ FileIOTool_init
    /\ file_content \in {None} \cup FileContents
NextFileIO ==
    \/ call_file_write /\ UNCHANGED frameFileIO
    \/ call_file_delete /\ UNCHANGED frameFileIO
    \/ call_file_read /\ UNCHANGED frameFileIO
    \/ call_file_rollback /\ UNCHANGED frameFileIO
SpecFileIO == InitFileIO /\ [][NextFileIO]_vars

\* the facade's assign_credit called by several threads, each once
frameWriters == <<smVars, orchVars, flowVars, priVars, peVars, stopVars, approvalVars,
                 toolVars, fileVars, ledger_call, ledger_ret, ledger_calls, autoVars, memVars>>
InitWriters ==
    /\ OthersIdle
    /\ ToolsIdle
    /\ Writers_init
    /\ AutomationIdle
    /\ MemoryIdle
NextWriters ==
    \E w \in Writers :
        \/ writer_append_credits(w) /\ UNCHANGED frameWriters
        \/ writer_append_agent_credits(w) /\ UNCHANGED frameWriters
        \/ writer_iter_start(w) /\ UNCHANGED frameWriters
        \/ writer_iter_next(w) /\ UNCHANGED frameWriters
        \/ writer_read_success_rate(w) /\ UNCHANGED frameWriters
        \/ writer_read_quality(w) /\ UNCHANGED frameWriters
        \/ writer_store_weight(w) /\ UNCHANGED frameWriters
SpecWriters == InitWriters /\ [][NextWriters]_vars

\* the flow's agent selection on a ledger that grows as in Scenario E
frameScenario == <<smVars, orchVars, flowVars, priVars, stopVars, approvalVars, toolVars,
                  fileVars, writerVars, autoVars, memVars>>
InitScenario ==
    /\ OthersIdle
    /\ ToolsIdle
    /\ WritersIdle
    /\ AutomationIdle
    /\ MemoryIdle
NextScenario ==
    \/ scenario_record_history /\ UNCHANGED frameScenario
    \/ scenario_feed /\ UNCHANGED frameScenario
    \/ scenario_select /\ UNCHANGED frameScenario
SpecScenario == InitScenario /\ [][NextScenario]_vars

\* a SoftwareFactory at any automation level, with any iteration limit up to
\* the default
frameAutomation == <<smVars, orchVars, flowVars, priVars, peVars, ledgerVars, stopVars,
                     approvalVars, toolVars, fileVars, writerVars, memVars>>
InitAutomation ==
    /\ OthersIdle
    /\ ToolsIdle
    /\ WritersIdle
    /\ SoftwareFactory_init
    /\ MemoryIdle
NextAutomation ==
    \/ execute_with_automation /\ UNCHANGED frameAutomation
    \/ automation_iteration /\ UNCHANGED frameAutomation
    \/ automation_exhausted /\ UNCHANGED frameAutomation
SpecAutomation == InitAutomation /\ [][NextAutomation]_vars

\* one MemorySystem called for two missions whose tasks have the same ids
frameMemory == <<smVars, orchVars, flowVars, priVars, peVars, ledgerVars, stopVars,
                 approvalVars, toolVars, fileVars, writerVars, autoVars>>
InitMemory ==
    /\ OthersIdle
    /\ ToolsIdle
    /\ WritersIdle
    /\ AutomationIdle
    /\ ShortTermMemory_init
NextMemory ==
    \/ call_create_project_state /\ UNCHANGED frameMemory
    \/ call_add_task /\ UNCHANGED frameMemory
    \/ call_update_task_status /\ UNCHANGED frameMemory
    \/ call_assign_agent_to_task /\ UNCHANGED frameMemory
    \/ call_add_task_output /\ UNCHANGED frameMemory
    \/ call_clear_project /\ UNCHANGED frameMemory
    \/ call_record_mission_completion /\ UNCHANGED frameMemory
SpecMemory == InitMemory /\ [][NextMemory]_vars

----------------------------------------------------------------------------
(* Claims *)

Min(a, b) == IF a <= b THEN a ELSE b


----------------------------------------------------------------------------
(* C1: transition(target) with a target that is not in the edge table entry
   of the current state returns false and leaves the current state and the
   transition history unchanged, for every (current state, target) pair. *)
C1_InvalidTransitionRejected ==
    [][ \A target \in OrchestratorState :
            (sm_call'.target = target /\ sm_call'.from = current_state
               /\ target \notin transitions[current_state])
            => (sm_ret' = FALSE /\ current_state' = current_state
                  /\ state_history' = state_history) ]_vars

\* an invalid target was rejected in a state reached by earlier transitions
C1_Witness ==
    /\ sm_call.target \in OrchestratorState
    /\ sm_call.target \notin transitions[sm_call.from]
    /\ sm_ret = FALSE
    /\ Len(state_history) >= 2
    /\ current_state = sm_call.from

(* C2: starting from Idle, transition(target) returns true exactly when
   target is in the edge table entry of the current state; on true the
   current state becomes target and exactly one history record
   (from = previous state, to = target) is appended; the call always
   returns a boolean. *)
C2_TransitionContract ==
    [][ sm_call'.target \in OrchestratorState =>
          /\ sm_ret' \in BOOLEAN
          /\ sm_ret' = (sm_call'.target \in transitions[current_state])
          /\ sm_ret' =>
                /\ current_state' = sm_call'.target
                /\ state_history' =
                      Append(state_history,
                             [from |-> current_state, to |-> sm_call'.target]) ]_vars

\* a valid transition was taken after earlier ones
C2_Witness ==
    /\ sm_ret = TRUE
    /\ Len(state_history) >= 2
    /\ state_history[Len(state_history)] = [from |-> sm_call.from, to |-> sm_call.target]
    /\ current_state = sm_call.target

(* C3: an agent is started on a task only when every task it depends on is
   Completed; a task whose dependency failed or has not run yet is never
   dispatched. *)
C3_StartAfterDependencies ==
    \A i \in 1..Len(dispatch_log) : dispatch_log[i].dependencies_completed

(* C4: in every reachable state the retry count kept for a task, by the
   facade's assignment and by the flow's retry handling, is at most the
   policy's max_retries_per_task. *)
C4_RetryCountBounded ==
    /\ \A t \in DOMAIN active_assignments :
          active_assignments[t].retry_count <= policy.max_retries_per_task
    /\ \A t \in FlowTaskIds : task_retries[t] <= policy.max_retries_per_task

(* C5: for every assigned task, of the failure reports made after an attempt
   the first max_retries_per_task are answered 'retry' and every later one
   'fallback' when retries are enabled; with retries disabled none is
   answered 'retry', so the first one already yields 'fallback'. *)
C5_RetryThenFallback ==
    \A t \in TaskIds :
        /\ retry_answers[t] =
              IF policy.retry_enabled
              THEN Min(fail_reports[t], policy.max_retries_per_task)
              ELSE 0
        /\ fallback_answers[t] = fail_reports[t] - retry_answers[t]

\* a task failed three times under a policy of two retries: two 'retry'
\* answers were given and the last answer was 'fallback'
C5_Witness ==
    /\ policy.retry_enabled
    /\ policy.max_retries_per_task = 2
    /\ orch_call.op = "monitor_execution"
    /\ orch_call.status = "failed"
    /\ orch_ret.action = "fallback"
    /\ fail_reports[orch_call.task] = 3
    /\ retry_answers[orch_call.task] = 2

\* the status of a task of the mission's project state
status_of(task_id) ==
    IF task_id \in DOMAIN task_status THEN task_status[task_id] ELSE "absent"

(* C6: Scenario B: a mission of a single task whose agent fails every time,
   under a policy of two retries, returns with exactly 2 retries recorded,
   the task Blocked, and exactly 3 ledger entries, all with success false. *)
C6_ScenarioB ==
    ( /\ flow_pc = "returned"
      /\ Len(flow_tasks) = 1
      /\ policy.retry_enabled
      /\ policy.max_retries_per_task = 2
      /\ agent_runs[1] > 0
      /\ \A i \in 1..Len(credits) : ~credits[i].success )
    => /\ task_retries[1] = 2
       /\ status_of(1) = "blocked"
       /\ Len(credits) = 3
       /\ \A i \in 1..Len(credits) : credits[i].task_id = 1 /\ ~credits[i].success

\* a chain of dependencies leads from task a to task b
Reaches(deps, ids, a, b) ==
    \E n \in 1..Cardinality(ids) :
        \E p \in [1..(n + 1) -> ids] :
            /\ p[1] = a
            /\ p[n + 1] = b
            /\ \A i \in 1..n : p[i + 1] \in deps[p[i]]

FlowIds == {flow_tasks[i].task_id : i \in 1..Len(flow_tasks)}
FlowDeps == [t \in FlowIds |-> flow_tasks[t].dependencies \cap FlowIds]

\* the task's agent failed and the mission returned with the task not completed
EndedUnsuccessful(task_id) ==
    /\ failure_count[task_id] > 0
    /\ status_of(task_id) \in {"retrying", "in_progress", "failed", "blocked"}

(* C7: when the mission returns, for every task that depends, directly or
   through other tasks, on a task that ended without success after its
   retries (Blocked), no agent was ever invoked and the task is not
   Completed. *)
C7_DependentsOfBlockedNotRun ==
    flow_pc = "returned" =>
        \A t \in FlowIds, d \in FlowIds :
            (Reaches(FlowDeps, FlowIds, t, d) /\ EndedUnsuccessful(d))
            => (agent_runs[t] = 0 /\ status_of(t) # "completed")

(* C8: when execute_mission returns, every task of the mission is Completed
   or in a reported terminal state without success; none is pending, in
   progress or retrying. *)
C8_AllTasksTerminal ==
    flow_pc = "returned" =>
        \A t \in DOMAIN task_status : task_status[t] \in {"completed", "failed", "blocked"}

(* C9: dependency-aware prioritize_tasks returns a permutation of its input:
   every input task exactly once, none added, none dropped, for every task
   list and dependency map, cyclic ones included. *)
C9_Permutation ==
    pri_pc = "done" =>
        /\ Len(ready_tasks) = Len(pri_tasks)
        /\ \A i \in 1..Len(pri_tasks) : \E j \in 1..Len(ready_tasks) : ready_tasks[j] = pri_tasks[i]
        /\ \A j \in 1..Len(ready_tasks) : \E i \in 1..Len(pri_tasks) : ready_tasks[j] = pri_tasks[i]

InputIds == {pri_tasks[i].task_id : i \in 1..Len(pri_tasks)}
InputDeps == [t \in InputIds |-> pri_dependencies[t] \cap InputIds]

\* an orderable task: no chain of dependencies among the input tasks leads
\* from it into a dependency cycle
Orderable(task_id) ==
    /\ task_id \in InputIds
    /\ ~Reaches(InputDeps, InputIds, task_id, task_id)
    /\ ~\E c \in InputIds :
          /\ Reaches(InputDeps, InputIds, task_id, c)
          /\ Reaches(InputDeps, InputIds, c, c)

(* C10: in the result of dependency-aware prioritize_tasks every orderable
   task stands after each of the input tasks it depends on. *)
C10_TopologicalOrder ==
    \A j \in 1..Len(ready_tasks) :
        Orderable(ready_tasks[j].task_id) =>
            \A d \in InputDeps[ready_tasks[j].task_id] :
                \E i \in 1..(j - 1) : ready_tasks[i].task_id = d

\* a result of three tasks: an orderable task with a dependency among the
\* input, and a task on a cycle that is not orderable
C10_Witness ==
    /\ pri_pc = "done"
    /\ Len(ready_tasks) = 3
    /\ \E t \in InputIds : Orderable(t) /\ InputDeps[t] # {}
    /\ \E t \in InputIds : ~Orderable(t)

\* a task that can never become ready: it, or a task a chain of dependencies
\* leads to from it, is on a dependency cycle or names a dependency that is
\* not among the input tasks
NeverReady(task_id) ==
    \E c \in InputIds :
        /\ c = task_id \/ Reaches(InputDeps, InputIds, task_id, c)
        /\ \/ ~(pri_dependencies[c] \subseteq InputIds)
           \/ Reaches(InputDeps, InputIds, c, c)

(* C11: in the result of dependency-aware prioritize_tasks every task that
   can never become ready (on a dependency cycle, or naming a dependency
   that is not among the input tasks) stands after all orderable tasks. *)
C11_NeverReadyLast ==
    pri_pc = "done" =>
        \A i \in 1..Len(ready_tasks), j \in 1..Len(ready_tasks) :
            (NeverReady(ready_tasks[i].task_id) /\ ~NeverReady(ready_tasks[j].task_id))
            => j < i

\* 0.6 * success_rate + 0.4 * quality_score as a real number (in hundredths
\* for metrics in tenths), a missing metric counting as zero
exact_score(performance, agent_id) ==
    LET metric(key) ==
            IF agent_id \in DOMAIN performance /\ key \in DOMAIN performance[agent_id]
            THEN performance[agent_id][key]
            ELSE 0
    IN 6 * metric("success_rate") + 4 * metric("quality_score")

(* C12: under the performance_based strategy select_agent returns none for  *)
(* an empty candidate list, and otherwise a candidate whose score           *)
(* 0.6 * success_rate + 0.4 * quality_score is maximal, the first such      *)
(* candidate of the list when several share that score.                     *)
C12_PerformanceBased ==
    (pe_call.op = "select_agent" /\ policy.agent_selection_strategy = "performance_based")
    => IF candidate_agents = <<>>
       THEN pe_ret = None
       ELSE \E i \in 1..Len(candidate_agents) :
               /\ pe_ret = candidate_agents[i]
               /\ \A j \in 1..Len(candidate_agents) :
                     /\ exact_score(pe_call.performance, candidate_agents[j])
                            <= exact_score(pe_call.performance, candidate_agents[i])
                     /\ j < i => exact_score(pe_call.performance, candidate_agents[j])
                                    < exact_score(pe_call.performance, candidate_agents[i])

(* C13: under the round_robin strategy with a fixed list of n candidates   *)
(* the k-th select_agent call, counted from zero, returns candidate        *)
(* k mod n, and each call advances the cursor by exactly one.              *)
C13_RoundRobin ==
    [][(/\ policy.agent_selection_strategy = "round_robin"
        /\ candidate_agents # <<>>
        /\ select_calls' = select_calls + 1)
       => /\ pe_ret' = candidate_agents[(select_calls % Len(candidate_agents)) + 1]
          /\ round_robin_index' = round_robin_index + 1]_vars

\* the third call on two candidates has come back to the first of them
C13_Witness ==
    /\ policy.agent_selection_strategy = "round_robin"
    /\ Len(candidate_agents) = 2
    /\ select_calls = 3
    /\ pe_call.op = "select_agent"
    /\ pe_ret = candidate_agents[1]
    /\ round_robin_index = 3

\* the delay the retry policy prescribes, in seconds
expected_delay(retry_count, strategy) ==
    CASE strategy = "exponential_backoff" -> Min(2 ^ retry_count, 60)
      [] strategy = "linear_backoff" -> 5 * retry_count
      [] OTHER -> 0

(* C14: get_retry_delay returns min(2^retry_count, 60) under exponential   *)
(* backoff, retry_count * 5 under linear backoff and 0 under immediate and *)
(* no-retry; under exponential and linear backoff a call with a retry      *)
(* count at least as large returns a delay at least as large.              *)
C14_RetryDelay ==
    [][pe_call'.op = "get_retry_delay"
       => /\ pe_ret' = expected_delay(pe_call'.retry_count, pe_call'.strategy)
          /\ (/\ pe_call.op = "get_retry_delay"
              /\ pe_call.strategy = pe_call'.strategy
              /\ pe_call.strategy \in {"exponential_backoff", "linear_backoff"}
              /\ pe_call.retry_count <= pe_call'.retry_count)
             => pe_ret <= pe_ret']_vars

\* an exponential delay that the cap has cut
C14_Witness ==
    /\ pe_call.op = "get_retry_delay"
    /\ pe_call.strategy = "exponential_backoff"
    /\ pe_call.retry_count = 7
    /\ pe_ret = 60

\* the records of one agent in a per-agent dictionary, none if it has no entry
records_of(by_agent, agent_id) ==
    IF agent_id \in DOMAIN by_agent THEN by_agent[agent_id] ELSE <<>>

(* C15: the ledger is append-only.  Each assign_credit appends exactly one *)
(* record, the one of the call, to the global list and to the list of the *)
(* agent it names and leaves the other agents' lists as they were; every   *)
(* other operation leaves the global list and every agent's list as they   *)
(* were.                                                                   *)
C15_AppendOnly ==
    [][IF ledger_calls' = ledger_calls + 1 /\ ledger_call'.op = "assign_credit"
       THEN /\ credits' = Append(credits, ledger_call'.credit)
            /\ ledger_call'.credit.agent_id = ledger_call'.agent_id
            /\ \A a \in AgentIds :
                  records_of(agent_credits', a) =
                      IF a = ledger_call'.agent_id
                      THEN Append(records_of(agent_credits, a), ledger_call'.credit)
                      ELSE records_of(agent_credits, a)
       ELSE /\ credits' = credits
            /\ \A a \in AgentIds : records_of(agent_credits', a) = records_of(agent_credits, a)]_vars

\* a query answered after two different writes for the same agent
C15_Witness ==
    /\ ledger_calls = 3
    /\ ledger_call.op = "get_agent_success_rate"
    /\ Len(credits) = 2
    /\ records_of(agent_credits, "agent_1") = credits
    /\ credits[1] # credits[2]

\* the figures of an agent read from the global list of the ledger
successes_in(ledger, agent_id) ==
    Cardinality({i \in 1..Len(ledger) : ledger[i].agent_id = agent_id /\ ledger[i].success})

records_in(ledger, agent_id) ==
    Cardinality({i \in 1..Len(ledger) : ledger[i].agent_id = agent_id})

RECURSIVE quality_in(_, _)
quality_in(ledger, agent_id) ==
    IF ledger = <<>> THEN 0
    ELSE (IF Head(ledger).agent_id = agent_id THEN Head(ledger).quality_score ELSE 0)
            + quality_in(Tail(ledger), agent_id)

\* weights[agent_id] is 0.6 * success rate + 0.4 * average quality of the
\* agent's records in the ledger (1.0 being 1000 * RateScale, a success rate of
\* one being 100 percent)
derived_from(ledger, weights, agent_id) ==
    /\ agent_id \in DOMAIN weights
    /\ records_in(ledger, agent_id) * weights[agent_id] =
          RateScale * (600 * successes_in(ledger, agent_id) + 4 * quality_in(ledger, agent_id))

(* C16: in every reachable state the stored adaptation weight of every     *)
(* agent that has records in the ledger equals 0.6 * success rate + 0.4 *  *)
(* average quality computed from those records.                            *)
C16_WeightsFromLedger ==
    \A a \in AgentIds : records_in(credits, a) > 0 => derived_from(credits, adaptation_weights, a)

(* C17: with adaptive learning enabled, right after every ledger write     *)
(* through the facade the weight of every agent that has records, the      *)
(* written agent among them, is the one computed from the ledger that      *)
(* includes the new record.                                                *)
C17_RefreshOnWrite ==
    [][(/\ policy.adaptive_learning_enabled
        /\ ledger_calls' = ledger_calls + 1
        /\ ledger_call'.op = "assign_credit")
       => /\ records_in(credits', ledger_call'.agent_id) > 0
          /\ \A a \in AgentIds :
                records_in(credits', a) > 0 => derived_from(credits', adaptation_weights', a)]_vars

\* a write for an agent whose weight had been set by adapt_agent_selection:
\* one failure and one success of quality 90 give 0.5 * 0.6 + 0.7 * 0.4
C17_Witness ==
    /\ policy.adaptive_learning_enabled
    /\ ledger_calls = 3
    /\ ledger_call.op = "assign_credit"
    /\ ledger_call.agent_id = "agent_1"
    /\ Len(credits) = 2
    /\ records_in(credits, "agent_1") = 2
    /\ successes_in(credits, "agent_1") = 1
    /\ quality_in(credits, "agent_1") = 140
    /\ adaptation_weights["agent_1"] = 580 * RateScale

\* the condition at position i of the manager's list holds after the last
\* check: confidence of the metrics passed at least the threshold; the last two
\* recorded scores closer than the threshold; the iteration count at least the
\* threshold; the time since the first check at least the threshold
satisfied(i) ==
    LET c == stopping_manager.conditions[i]
        given == stop_call.current_metrics
        recorded == stopping_manager.metrics
    IN  CASE c.condition_type = "confidence_threshold" ->
                (IF "confidence" \in DOMAIN given THEN given.confidence ELSE 0) >= c.threshold
          [] c.condition_type = "score_convergence" ->
                /\ "scores" \in DOMAIN recorded
                /\ Len(recorded.scores) >= 2
                /\ LET last == recorded.scores[Len(recorded.scores)]
                       previous == recorded.scores[Len(recorded.scores) - 1]
                   IN  last - previous < c.threshold /\ previous - last < c.threshold
          [] c.condition_type = "max_iterations" ->
                stopping_manager.iteration_count >= c.threshold
          [] c.condition_type = "time_limit" ->
                clock_now - stopping_manager.start_time[1] >= c.threshold
          [] OTHER -> FALSE

(* C18: check_conditions evaluates the enabled conditions in registration  *)
(* order and returns the first one that is satisfied: the earliest when    *)
(* several are, never a disabled one, and none when no enabled condition   *)
(* is satisfied.                                                           *)
C18_FirstSatisfied ==
    stop_call.op = "check_conditions" =>
        LET conditions == stopping_manager.conditions
            hit(i) == conditions[i].enabled /\ satisfied(i)
        IN  IF \A i \in 1..Len(conditions) : ~hit(i)
            THEN stop_ret.ret = None
            ELSE \E i \in 1..Len(conditions) :
                    /\ hit(i)
                    /\ \A j \in 1..(i - 1) : ~hit(j)
                    /\ stop_ret.ret = conditions[i].condition_type

\* Scenario D: an iteration limit of 5 registered first, a confidence
\* threshold of 0.8 second, confidence 0.9 on the first check
C18_Witness ==
    /\ stopping_manager.conditions =
          <<StoppingConditionConfig("max_iterations", 5, TRUE, FALSE),
            StoppingConditionConfig("confidence_threshold", 8, TRUE, FALSE)>>
    /\ stop_call = StopCall("check_conditions", [confidence |-> 9])
    /\ stopping_manager.iteration_count = 1
    /\ stop_ret.ret = "confidence_threshold"

(* C19: every check increments the iteration counter by exactly one; with  *)
(* an enabled iteration limit N as the only condition, a check returns the *)
(* iteration limit if it is the N-th or a later one and none before.       *)
C19_IterationCount ==
    [][check_calls' = check_calls + 1
       => /\ stopping_manager'.iteration_count = stopping_manager.iteration_count + 1
          /\ \A N \in {2, 5} :
                stopping_manager'.conditions =
                    <<StoppingConditionConfig("max_iterations", N, TRUE, FALSE)>>
                => stop_ret'.ret = IF stopping_manager'.iteration_count >= N
                                   THEN "max_iterations" ELSE None]_vars

\* the third check of a manager with an iteration limit of 2
C19_Witness ==
    /\ stopping_manager.conditions = <<StoppingConditionConfig("max_iterations", 2, TRUE, FALSE)>>
    /\ ~reset_done
    /\ stop_call.op = "check_conditions"
    /\ stopping_manager.iteration_count = 3
    /\ stop_ret.ret = "max_iterations"

(* C20: reset sets the iteration count to zero, clears the time anchor and *)
(* empties the metrics, and keeps the conditions; after a reset every      *)
(* check returns what a manager built anew with the same conditions        *)
(* returns for the same checks.                                            *)
C20_ResetIsFresh ==
    [][/\ stop_call'.op = "reset"
          => /\ stopping_manager'.iteration_count = 0
             /\ stopping_manager'.start_time = <<>>
             /\ stopping_manager'.metrics = <<>>
             /\ stopping_manager'.conditions = stopping_manager.conditions
       /\ (reset_done' /\ stop_call'.op = "check_conditions")
          => stop_ret' = fresh_ret']_vars

\* a check with scores, a reset, then two checks that reach an iteration
\* limit of 2 counted from the reset
C20_Witness ==
    /\ reset_done
    /\ check_calls = 3
    /\ stop_call.op = "check_conditions"
    /\ stopping_manager.iteration_count = 2
    /\ "scores" \notin DOMAIN stopping_manager.metrics
    /\ \E i \in 1..Len(stopping_manager.conditions) :
          stopping_manager.conditions[i].condition_type = "score_convergence"
    /\ stop_ret.ret = "max_iterations"

(* C21: during execute_mission the stopping condition evaluator is         *)
(* consulted once between consecutive mission iterations and never while   *)
(* the tasks of an iteration run: when iteration k (counted from zero) is  *)
(* under way or has ended the run, exactly k checks have been made.        *)
C21_ConsultedBetweenIterations ==
    flow_pc # "idle" => check_calls = iteration

\* the states entered, in the order of the history
states_entered == [i \in 1..Len(state_history) |-> state_history[i].to]

\* seq holds the elements of path in that order, others possibly between them
RECURSIVE passes_through(_, _)
passes_through(seq, path) ==
    IF path = <<>> THEN TRUE
    ELSE IF seq = <<>> THEN FALSE
    ELSE IF Head(seq) = Head(path) THEN passes_through(Tail(seq), Tail(path))
    ELSE passes_through(Tail(seq), path)

(* C22: when execute_mission has returned a completed outcome the state    *)
(* machine is in Completed, having gone from Idle through planning,        *)
(* decomposing, assigning, executing and evaluating along edges of the     *)
(* table, with one history record per state change.                        *)
C22_PhasesRecorded ==
    flow_result = "completed" =>
        /\ current_state = "completed"
        /\ passes_through(states_entered,
                          <<"planning", "decomposing", "assigning", "executing",
                            "evaluating", "completed">>)
        /\ \A i \in 1..Len(state_history) :
              /\ state_history[i].to \in transitions[state_history[i].from]
              /\ state_history[i].from = IF i = 1 THEN "idle" ELSE state_history[i - 1].to

(* C23: if the plan's approval request is pending or rejected when the     *)
(* planning phase checks it, execute_mission halts there: the step runs no *)
(* agent, adds no task and writes no ledger record, and the call returns a *)
(* failed outcome.                                                         *)
C23_RejectionHalts ==
    [][(flow_pc = "planning" /\ plan_approval' \in {"pending", "rejected"})
       => /\ flow_pc' = "returned"
          /\ flow_result' = "failed"
          /\ credits' = credits
          /\ agent_runs' = agent_runs
          /\ task_status' = task_status]_vars

\* the status of a request, none if it was never issued
request_status(reqs, request_id) ==
    IF request_id \in DOMAIN reqs THEN reqs[request_id].status ELSE "unknown"

(* C24: an approval decision is final.  approve and reject return true and *)
(* set the status only when the request exists and is pending; otherwise   *)
(* they return false and leave every request as it was.  No step turns an  *)
(* approved or auto-approved request into anything else, or a rejected     *)
(* request into anything else, and a request for which is_approved has     *)
(* returned true is approved from then on.                                 *)
C24_DecisionFinal ==
    [][/\ \A op \in {"approve", "reject"} :
            (approval_call'.op = op /\ approval_now' = approval_now) =>
                LET request_id == approval_call'.request_id IN
                IF request_status(requests, request_id) = "pending"
                THEN /\ approval_ret' = TRUE
                     /\ requests'[request_id].status =
                            (IF op = "approve" THEN "approved" ELSE "rejected")
                     /\ \A r \in DOMAIN requests \ {request_id} : requests'[r] = requests[r]
                ELSE /\ approval_ret' = FALSE
                     /\ requests' = requests
       /\ \A r \in DOMAIN requests :
            /\ r \in DOMAIN requests'
            /\ requests[r].status \in {"approved", "auto_approved"}
                  => requests'[r].status = requests[r].status
            /\ requests[r].status = "rejected" => requests'[r].status = "rejected"
       /\ (approval_call'.op = "is_approved" /\ approval_ret' = TRUE)
            => request_status(requests', approval_call'.request_id)
                   \in {"approved", "auto_approved"}]_vars

\* a reject refused on a request that a check had found auto-approved after
\* its timeout
C24_Witness ==
    /\ approval_call = ApprovalCall("reject", 1)
    /\ approval_ret = FALSE
    /\ Len(requests) >= 1
    /\ requests[1].status = "auto_approved"
    /\ requests[1].auto_approve_after = <<1>>

\* the most recent grant for the agent and the tool stands (made and not
\* revoked since), has not expired at the given time, and contains every
\* required permission
holds(agent_id, tool_id, required, clock) ==
    /\ <<agent_id, tool_id>> \in DOMAIN last_grant
    /\ LET grant == last_grant[<<agent_id, tool_id>>]
       IN  /\ grant.standing
           /\ grant.expires_at = <<>> \/ ~(clock > grant.expires_at[1])
           /\ required \subseteq grant.permissions

(* C25: ToolRegistry.execute_tool never invokes a registered tool for an   *)
(* agent that does not currently hold every permission the tool requires:  *)
(* the call answers PERMISSION_DENIED, the tool's execute is not called    *)
(* and the tool's audit log is unchanged.                                  *)
C25_DeniedWithoutPermission ==
    [][(/\ tool_call'.op = "execute_tool"
        /\ tool_now' = tool_now
        /\ tool_call'.tool_id \in DOMAIN RegisteredTools
        /\ ~holds(tool_call'.agent_id, tool_call'.tool_id,
                  RegisteredTools[tool_call'.tool_id], tool_now))
       => /\ tool_ret'.value = "permission_denied"
          /\ ~tool_ret'.invoked
          /\ audit_log' = audit_log]_vars

(* C26: after any sequence of grants and revokes, check_permissions(agent, *)
(* tool, required) is true exactly when the most recent grant for that     *)
(* agent and tool has not been revoked since, its expiry (if any) has not  *)
(* passed, and it contains every required permission.                      *)
C26_CheckFollowsLastGrant ==
    [][(tool_call'.op = "check_permissions" /\ tool_now' = tool_now)
       => tool_ret'.value = holds(tool_call'.agent_id, tool_call'.tool_id,
                                  tool_call'.permissions, tool_now)]_vars

(* C27: rolling back a successful write execution of the file tool         *)
(* restores the file to the content it had immediately before that write,  *)
(* whatever writes and deletes were made to the path and whichever of      *)
(* those executions is rolled back.                                        *)
C27_RollbackRestores ==
    [][(/\ file_call'.op = "rollback"
        /\ file_executions' = file_executions
        /\ file_executions[file_call'.arg].operation = "write"
        /\ file_executions[file_call'.arg].status = "success")
       => file_content' = file_executions[file_call'.arg].before]_vars

(* C28: whenever execute_mission returns status completed, the mission's   *)
(* status is COMPLETED, long-term memory holds a project outcome for the   *)
(* mission id with the mission's goal and the project's task count, and    *)
(* the project is no longer in short-term memory.                          *)
C28_CompletionRecorded ==
    flow_result = "completed" =>
        /\ mission_status = "completed"
        /\ project_outcome.mission_id = MissionId
        /\ project_outcome.goal = mission_goal
        /\ project_outcome.tasks_count = Cardinality(DOMAIN task_status)
        /\ short_term_project = <<>>

\* a mission of three tasks returned completed in its second iteration
C28_Witness ==
    /\ flow_result = "completed"
    /\ iteration = 1
    /\ mission_goal = "goal_b"
    /\ project_outcome.outcome = "success"
    /\ project_outcome.tasks_count = MaxTasks

\* how often a record occurs in a list of records
occurrences(seq, record) == Cardinality({i \in 1..Len(seq) : seq[i] = record})

(* C29: ledger writes are serialized.  When several callers record         *)
(* outcomes at once, no write fails because of another writer, and once    *)
(* every call has returned each recorded outcome is in the ledger exactly  *)
(* once and the weights are the ones derived from all the records.         *)
C29_WritesSerialized ==
    /\ \A w \in Writers : writer_pc[w] # "raised"
    /\ (\A w \in Writers : writer_pc[w] = "returned") =>
        /\ \A w \in Writers :
            /\ occurrences(credits, credit_of(w)) = 1
            /\ occurrences(credits_get(agent_credits, credit_of(w).agent_id), credit_of(w)) = 1
        /\ \A a \in DOMAIN agent_credits :
            /\ a \in DOMAIN adaptation_weights
            /\ adaptation_weights[a] = combined_score(success_rate_of(agent_credits, a),
                                                      average_quality_of(agent_credits, a))

\* the weight update_from_credits derives for an agent from the ledger
derived_weight(agent_id) ==
    combined_score(success_rate_of(agent_credits, agent_id),
                   average_quality_of(agent_credits, agent_id))

\* 0.6 * successes + 0.4 * (sum of qualities), in thousandths, over an agent's
\* records: the agent's weight times the number of its records
weight_sum(agent_id) ==
    LET mine == credits_get(agent_credits, agent_id)
    IN  600 * SumSeq(mine, "success_credit") + 4 * SumSeq(mine, "quality_score")

\* the weight the ledger gives agent b exceeds the one it gives agent a
outweighs(b, a) ==
    weight_sum(b) * Len(credits_get(agent_credits, a))
        > weight_sum(a) * Len(credits_get(agent_credits, b))

(* C30: Scenario E.  On the ledger with figures 0.9/0.8 for A (agent_1)    *)
(* and 0.7/0.6 for B (agent_2) the flow's selection picks A; once further  *)
(* successful outcomes of B have made B's derived weight exceed A's, every *)
(* selection picks B.                                                      *)
C30_ScenarioE ==
    [][(pe_call'.op = "controller_select_agent" /\ credits' = credits)
       => /\ adaptation_weights["agent_1"] = derived_weight("agent_1")
          /\ adaptation_weights["agent_2"] = derived_weight("agent_2")
          /\ outweighs("agent_2", "agent_1")
                <=> adaptation_weights["agent_2"] > adaptation_weights["agent_1"]
          /\ Len(credits) = Len(ScenarioHistory) => pe_ret' = "agent_1"
          /\ outweighs("agent_2", "agent_1") => pe_ret' = "agent_2"]_vars

\* the selection has switched to B after fifteen further successes
C30_Witness ==
    /\ pe_call.op = "controller_select_agent"
    /\ pe_ret = "agent_2"
    /\ Len(credits) >= Len(ScenarioHistory) + 15
    /\ outweighs("agent_2", "agent_1")

\* the run has returned after its agents ran on the three tasks and every one
\* of them answered completed
all_succeeded ==
    /\ flow_pc = "returned"
    /\ Len(dispatch_log) >= Len(flow_tasks)
    /\ \A i \in 1..Len(dispatch_log) : dispatch_log[i].status = "completed"

\* every task completed, one ledger entry per task, no retry recorded
clean_run ==
    /\ \A t \in FlowIds : status_of(t) = "completed"
    /\ project_outcome.successful_tasks = Len(flow_tasks)
    /\ Len(credits) = Len(flow_tasks)
    /\ \A t \in FlowIds : task_retries[t] = 0

C32_CallbackOfTrigger ==
    stop_call.op = "check_conditions" =>
        LET conditions == stopping_manager.conditions
            hit(i) == conditions[i].enabled /\ satisfied(i)
            invoked == stop_ret.callback
        IN  /\ \A k \in 1..Len(invoked) :
                /\ invoked[k].position \in 1..Len(conditions)
                /\ hit(invoked[k].position)
                /\ conditions[invoked[k].position].callback
            /\ IF stop_ret.ret = None
               THEN invoked = <<>>
               ELSE \E i \in 1..Len(conditions) :
                       /\ hit(i)
                       /\ \A j \in 1..(i - 1) : ~hit(j)
                       /\ conditions[i].condition_type = stop_ret.ret
                       /\ invoked = IF conditions[i].callback
                                    THEN <<CallbackCall(i, stop_ret.ret,
                                                        stop_call.current_metrics)>>
                                    ELSE <<>>

\* a check whose metrics differ from the metrics kept, on a disabled
\* threshold with a callback followed by an enabled one with a callback: the
\* second one's callback is the only one invoked
C32_Witness ==
    /\ stop_call = StopCall("check_conditions", [confidence |-> 9])
    /\ stopping_manager.conditions =
          <<StoppingConditionConfig("confidence_threshold", 8, FALSE, TRUE),
            StoppingConditionConfig("confidence_threshold", 8, TRUE, TRUE)>>
    /\ "scores" \in DOMAIN stopping_manager.metrics
    /\ stop_ret = StopRet("confidence_threshold",
                          <<CallbackCall(2, "confidence_threshold", [confidence |-> 9])>>)

(* C33: with adaptive learning disabled by policy, a ledger write through  *)
(* the facade appends the record and leaves every adaptation weight as it  *)
(* was.                                                                    *)
C33_NoRefreshWhenDisabled ==
    [][(/\ ~policy.adaptive_learning_enabled
        /\ ledger_calls' = ledger_calls + 1
        /\ ledger_call'.op = "assign_credit")
       => /\ credits' = Append(credits, ledger_call'.credit)
          /\ adaptation_weights' = adaptation_weights]_vars

\* the history is a path of the edge table from Idle to the current state
history_is_path ==
    /\ state_history # <<>> => state_history[1].from = "idle"
    /\ \A i \in 2..Len(state_history) : state_history[i].from = state_history[i - 1].to
    /\ current_state = IF state_history = <<>> THEN "idle"
                       ELSE state_history[Len(state_history)].to
    /\ \A i \in 1..Len(state_history) :
          /\ state_history[i].from \in DOMAIN transitions
          /\ state_history[i].to \in transitions[state_history[i].from]

(* C34: in the transition history the first record's from is Idle, each    *)
(* later record's from is the record before's to, the last record's to is  *)
(* the current state and every record is an edge of the table; the history *)
(* grows by exactly one record with each call of transition that returns   *)
(* true and not at all with a call that returns false, so its length is    *)
(* the number of calls that returned true.                                 *)
C34_HistoryIsPath ==
    /\ []history_is_path
    /\ [][/\ sm_ret' => Len(state_history') = Len(state_history) + 1
          /\ ~sm_ret' => state_history' = state_history
          /\ \A i \in 1..Len(state_history) : state_history'[i] = state_history[i]]_vars

\* three calls returned true, then one returned false: idle, planning,
\* decomposing, assigning, and a refused jump to completed
C34_Witness ==
    /\ Len(state_history) = 3
    /\ state_history[1] = [from |-> "idle", to |-> "planning"]
    /\ state_history[3].to = "assigning"
    /\ current_state = "assigning"
    /\ sm_call = [target |-> "completed", from |-> "assigning"]
    /\ sm_ret = FALSE

(* C35: the state machine does not enter Executing before the mission has  *)
(* been planned, decomposed and assigned: the first record of the history  *)
(* that enters Executing comes after records entering Planning,            *)
(* Decomposing and Assigning; and every record that enters Completed       *)
(* leaves Evaluating.                                                      *)
C35_ExecutingAfterAssigning ==
    /\ \A i \in 1..Len(state_history) :
          state_history[i].to = "executing" =>
              \A s \in {"planning", "decomposing", "assigning"} :
                  \E j \in 1..(i - 1) : state_history[j].to = s
    /\ \A i \in 1..Len(state_history) :
          state_history[i].to = "completed" => state_history[i].from = "evaluating"

\* the state machine is as it was before the step
machine_unchanged == current_state' = current_state /\ state_history' = state_history

(* C36: facade operations called out of lifecycle order have no effect.    *)
(* start_mission outside Idle returns false; decompose_mission outside     *)
(* Planning returns an empty list and records no mission tasks;            *)
(* assign_tasks outside Decomposing returns an empty list and creates no   *)
(* assignment; execute_task for an unassigned task or from a state with no *)
(* edge to Executing returns false; monitor_execution from a state with no *)
(* edge to Monitoring returns an empty result and changes no retry count;  *)
(* in each case the state and the history of the machine are unchanged.    *)
C36_OutOfOrderNoEffect ==
    [][/\ (orch_call'.op = "start_mission" /\ current_state # "idle")
            => ~orch_ret'.ok /\ machine_unchanged
       /\ (orch_call'.op = "decompose_mission" /\ current_state # "planning")
            => /\ orch_ret'.tasks = <<>>
               /\ mission_tasks' = mission_tasks
               /\ machine_unchanged
       /\ (orch_call'.op = "assign_tasks" /\ current_state # "decomposing")
            => /\ orch_ret'.assigned = {}
               /\ active_assignments' = active_assignments
               /\ machine_unchanged
       /\ (/\ orch_call'.op = "execute_task"
           /\ \/ orch_call'.task \notin DOMAIN active_assignments
              \/ "executing" \notin transitions[current_state])
            => ~orch_ret'.ok /\ machine_unchanged
       /\ (orch_call'.op = "monitor_execution" /\ "monitoring" \notin transitions[current_state])
            => /\ orch_ret'.action = "empty"
               /\ active_assignments' = active_assignments
               /\ machine_unchanged]_vars

(* C37: when execute_mission has returned, it has run at most              *)
(* max_iterations iterations and the mission's status matches the outcome  *)
(* returned: completed with a completed outcome, failed with a failed one, *)
(* never in progress.                                                      *)
C37_TerminalStatus ==
    flow_pc = "returned" =>
        /\ iteration <= max_iterations
        /\ flow_result \in {"completed", "failed"}
        /\ flow_result = "completed" => mission_status = "completed"
        /\ flow_result = "failed" => mission_status = "failed"

(* C38: execute_with_automation always returns a result that carries a     *)
(* status, after at most max_iterations mission executions; it never       *)
(* raises, also when the mission returns a failed outcome without a score  *)
(* and the review asks for a human.                                        *)
C38_AlwaysReturnsStatus ==
    /\ mission_runs <= improvement_max_iterations
    /\ auto_pc = "returned" =>
          auto_ret.status \in {"completed", "failed", "requires_human_review"}

----------------------------------------------------------------------------
(* C39: short-term memory keeps missions isolated.  clear_project(m) and
   record_mission_completion(m) remove from active_tasks only tasks of
   mission m; and update_task_status, assign_agent_to_task and
   add_task_output, called with a task id by a mission whose project holds a
   task of that id, return true, change that task as asked and leave the
   tasks of every other project as they were, also when another mission
   registered the same id. *)
removes_only_own(mission_id) ==
    \A t \in DOMAIN active_tasks :
        active_tasks[t].mission_id # mission_id
        => (t \in DOMAIN active_tasks' /\ active_tasks'[t] = active_tasks[t])

others_untouched(mission_id) ==
    \A m \in DOMAIN projects \ {mission_id} :
        m \in DOMAIN projects' /\ projects'[m] = projects[m]

acts_on_own(mission_id, task_id) ==
    LET before == projects[mission_id][task_id]
        after == projects'[mission_id][task_id]
    IN  /\ mem_ret' = TRUE
        /\ mem_call'.op = "update_task_status" => after.status \in StatusArgs
        /\ mem_call'.op = "assign_agent_to_task" => after.assigned_agent \in AgentArgs
        /\ mem_call'.op = "add_task_output" => Len(after.outputs) = Len(before.outputs) + 1
        /\ others_untouched(mission_id)

C39_MissionsIsolated ==
    [][ /\ mem_call'.op \in {"clear_project", "record_mission_completion"}
           => removes_only_own(mem_call'.mission_id)
        /\ ( /\ mem_call'.op \in {"update_task_status", "assign_agent_to_task",
                                  "add_task_output"}
             /\ mem_call'.mission_id \in DOMAIN projects
             /\ mem_call'.task_id \in DOMAIN projects[mem_call'.mission_id] )
           => acts_on_own(mem_call'.mission_id, mem_call'.task_id)
      ]_vars

====
